---------------------------- MODULE Spec2Model ----------------------------
(***************************************************************************)
(* A model of the inverter package: the per-field mappers and the record   *)
(* assemblers that convert a dataclass into an Avro schema (dc2avsc), a    *)
(* colander form schema (dc2colander and its JSON / Elasticsearch / Avro   *)
(* variants), an Elasticsearch mapping (dc2esmapping), a jsl document      *)
(* (dc2jsl) and SQLAlchemy columns (dc2pgsqla), and the JSON-safe Date and *)
(* DateTime schema types.                                                  *)
(*                                                                         *)
(* Python values are modelled as strings and records of strings:           *)
(*   None -> "None", dataclasses.MISSING -> "MISSING",                     *)
(*   colander.required -> "colander.required",                             *)
(*   colander.null -> "colander.null", a metadata key that is not set ->   *)
(*   "absent", True / False as metadata values -> "True" / "False".        *)
(* A call's outcome is a record whose exc field is "none" when the call    *)
(* returned and the exception's class name when it raised.                 *)
(***************************************************************************)
EXTENDS Integers, Sequences, FiniteSets, TLC

VARIABLES
    schema,      \* the record type (dataclass) the caller converts
    caller,      \* the caller's long-lived exclude_fields / readonly_fields lists
    call,        \* the last call: converter and arguments
    result,      \* what the last call returned or raised
    appstruct,   \* the value handed to a schema type's serialize
    cstruct,     \* the serialized value, handed to deserialize
    back,        \* the value deserialize returned, or what validation raised
    invoked      \* the record-level validators invoked so far, with their arguments

vars == <<schema, caller, call, result, appstruct, cstruct, back, invoked>>

(***************************************************************************)
(* Bounds of the model.                                                    *)
(***************************************************************************)
MaxFields == 2      \* fields per record type
MaxListLen == 3     \* longest caller-owned list a call is made with
MaxDays == 40       \* dates range over epoch - MaxDays .. epoch + MaxDays
MaxMillis == 2      \* datetimes lie within MaxMillis ms of a whole hour
MaxDeclared == 2    \* validators declared on a record type
MaxSupplied == 1    \* validators an application supplies
MaxWrapped == 3     \* validators or preparers in one wrapper
MaxDepth == 2       \* nesting of mappings and lists inside an appstruct

(***************************************************************************)
(* Record types.  A field is [name, type, cls, default, default_factory,   *)
(* metadata]; type is the declared type's name, cls the nested dataclass's *)
(* name when type = "dataclass".                                           *)
(***************************************************************************)
\* Field names, in declaration order.  They are ordinary names: none is
\* `validator` or `Options`, the attribute names dc2colander and dc2jsl set
\* on the class they build after the fields (SpecNames has those).
FieldNames == <<"name", "age", "tags">>

PrimitiveTypes == {"str", "int", "float", "bool", "date", "datetime"}
SupportedTypes == PrimitiveTypes \cup {"dict", "list", "set", "FileData", "dataclass"}
\* "bytes" stands for a declared type outside every supported category
AllTypes == SupportedTypes \cup {"bytes"}

NoMeta ==
    [required |-> "absent", editable |-> "absent", readonly |-> "absent",
     format |-> "absent", widget |-> "absent", field_factory |-> "absent",
     index |-> "absent", es_index |-> "absent", primary_key |-> "absent",
     autoincrement |-> "absent", unique |-> "absent", length |-> "absent"]

Fld(n, t, d, f, m) ==
    [kind |-> "Field", name |-> n, type |-> t,
     cls |-> IF t = "dataclass" THEN "Address" ELSE "",
     default |-> d, default_factory |-> f, metadata |-> m]

\* The nested record type: a required string, a non-editable integer and
\* a datetime.
Address ==
    [kind |-> "class", __name__ |-> "Address",
     fields |-> << Fld("street", "str", "MISSING", "MISSING", NoMeta),
                   Fld("zip", "int", "dflt", "MISSING",
                       [NoMeta EXCEPT !.editable = "False"]),
                   Fld("since", "datetime", "dflt", "MISSING", NoMeta) >>]

\* Declarations of a field of each type: without a default, with a default
\* value, with a default of None, with a default factory.
TypeDescs ==
    { Fld("", t, d[1], d[2], NoMeta) :
        t \in AllTypes,
        d \in {<<"MISSING", "MISSING">>, <<"dflt", "MISSING">>} }
    \cup
    { Fld("", t, d[1], d[2], NoMeta) :
        t \in {"str", "dict", "list", "dataclass"},
        d \in {<<"None", "MISSING">>, <<"MISSING", "factory">>} }

\* String and integer fields carrying metadata hints.
MetaDescs ==
    { Fld("", "str", d, "MISSING", m) :
        d \in {"MISSING", "dflt"},
        m \in { [NoMeta EXCEPT !.required = "True"],
                [NoMeta EXCEPT !.required = "False"],
                [NoMeta EXCEPT !.editable = "False"],
                [NoMeta EXCEPT !.readonly = "True"],
                [NoMeta EXCEPT !.format = "text"],
                [NoMeta EXCEPT !.format = "uuid"] } }
    \cup
    { Fld("", "str", "dflt", "MISSING", m) :
        m \in { [NoMeta EXCEPT !.widget = "widget"],
                [NoMeta EXCEPT !.widget = "widget", !.format = "text"],
                [NoMeta EXCEPT !.field_factory = "factory"],
                [NoMeta EXCEPT !.index = "True"],
                [NoMeta EXCEPT !.index = "False", !.es_index = "True"] } }

\* The fields after the first are drawn from a smaller set.
SmallDescs ==
    { Fld("", "str", "MISSING", "MISSING", NoMeta),
      Fld("", "int", "dflt", "MISSING", [NoMeta EXCEPT !.editable = "False"]),
      Fld("", "dataclass", "None", "MISSING", NoMeta) }

Named(desc, n) == [desc EXCEPT !.name = n]

Class(fs) == [kind |-> "class", __name__ |-> "Person", fields |-> fs]

RECURSIVE FieldSeqs(_, _)
\* The field lists of n fields whose first field is drawn from `first`.
FieldSeqs(first, n) ==
    IF n = 1 THEN { << Named(d, FieldNames[1]) >> : d \in first }
    ELSE { Append(fs, Named(d, FieldNames[n])) :
             fs \in FieldSeqs(first, n - 1), d \in SmallDescs }

Schemas(first) ==
    { Class(fs) : fs \in UNION { FieldSeqs(first, n) : n \in 1..MaxFields } }

NoCall == [op |-> "none"]
NoResult == [exc |-> "none", carries |-> "", value |-> "None"]

Raise(exc, what) == [exc |-> exc, carries |-> what, value |-> "None"]
Return(v) == [exc |-> "none", carries |-> "", value |-> v]

Range(s) == { s[i] : i \in DOMAIN s }
FieldNamesOf(cls) == { cls.fields[i].name : i \in DOMAIN cls.fields }

\* Optional list arguments: "None" or a list of field names.
NoList == [given |-> FALSE, items |-> <<>>]
List(s) == [given |-> TRUE, items |-> s]
\* `arg or []`
OrEmpty(arg) == IF arg.given THEN arg.items ELSE <<>>

(***************************************************************************)
(* inverter.common: the type/metadata introspector.                        *)
(***************************************************************************)
HasUsableDefault(prop) ==
    prop.default # "MISSING" \/ prop.default_factory # "MISSING"

dataclass_get_type(prop) ==
    [type |-> prop.type,
     required |-> IF prop.metadata.required # "absent"
                  THEN prop.metadata.required = "True"
                  ELSE ~HasUsableDefault(prop),
     metadata |-> prop.metadata]

is_dataclass_field(prop) == prop.type = "dataclass"

dataclass_check_type(prop, basetype) == prop.type = basetype

ClassOf(prop) == Address


(***************************************************************************)
(* dc2avsc: the Avro schema document.  A field's type list is a sequence   *)
(* of type names; a logical type is written base:logicalType.              *)
(***************************************************************************)
\* `if not required: field["type"].append("null")`
AvscUnion(base, required) ==
    IF required THEN << base >> ELSE << base, "null" >>

\* dc2avsc.py line 22: the required flag the Avro mapper reads.
AvscRequired(prop, ignore_required) ==
    IF ~ignore_required
    THEN (IF prop.metadata.required = "absent" THEN FALSE
          ELSE prop.metadata.required = "True")
    ELSE FALSE

RECURSIVE dc2avsc(_, _, _, _, _)
RECURSIVE dataclass_field_to_avsc_field(_, _)
RECURSIVE AvscFields(_, _, _, _)

dataclass_field_to_avsc_field(prop, ignore_required) ==
    LET t == dataclass_get_type(prop)
        required == AvscRequired(prop, ignore_required)
        field(base) == Return([name |-> prop.name, type |-> AvscUnion(base, required)])
    IN  IF t.type = "str" /\ prop.metadata.format = "uuid" THEN field("string:uuid")
        ELSE IF t.type = "str" THEN field("string")
        ELSE IF t.type = "int" THEN field("int")
        ELSE IF t.type = "float" THEN field("double")
        ELSE IF t.type = "bool" THEN field("boolean")
        ELSE IF t.type = "datetime" THEN field("long:timestamp-millis")
        ELSE IF t.type = "date" THEN field("int:date")
        ELSE IF is_dataclass_field(prop)
             \* the Field itself, not its type, is handed to dc2avsc
             THEN dc2avsc(prop, NoList, NoList, "inverter", TRUE)
        ELSE IF t.type = "dict" THEN field("string")
        ELSE Raise("TypeError", t.type)

\* The loop of dc2avsc over the fields from position i on; acc is
\* result["fields"] so far.  The first field that raises ends the call.
AvscFields(fs, i, ignore_required, acc) ==
    IF i > Len(fs) THEN Return(acc)
    ELSE LET r == dataclass_field_to_avsc_field(fs[i], ignore_required)
         IN  IF r.exc # "none" THEN r
             ELSE AvscFields(fs, i + 1, ignore_required, Append(acc, r.value))

dc2avsc(obj, include_fields, exclude_fields, namespace, ignore_required) ==
    \* schema.__name__ and schema.__dataclass_fields__ exist on a dataclass,
    \* not on a dataclasses.Field
    IF obj.kind # "class" THEN Raise("AttributeError", "__name__")
    ELSE LET fields == AvscFields(obj.fields, 1, ignore_required, <<>>)
         IN  IF fields.exc # "none" THEN fields
             ELSE Return([namespace |-> namespace, type |-> "record",
                          name |-> obj.__name__, fields |-> fields.value])

(***************************************************************************)
(* dc2esmapping: the Elasticsearch mapping.  A field's mapping is          *)
(* [type, raw, index]: raw tells whether the keyword sub-field is there,   *)
(* index is the "index" entry ("absent" when the mapping has none).  In a  *)
(* metadata mapping es_index stands for es.mapping_options: "absent" when  *)
(* there is no such entry, "noindex" when it is a mapping without "index", *)
(* and else the value of its "index".                                      *)
(***************************************************************************)
\* meta = deepcopy(t["metadata"]); meta.update(metadata)
EsMeta(prop, metadata) ==
    LET own == dataclass_get_type(prop).metadata
    IN  [own EXCEPT !.index = IF metadata.index # "absent" THEN metadata.index ELSE @,
                    !.es_index = IF metadata.es_index # "absent"
                                 THEN metadata.es_index ELSE @,
                    !.format = IF metadata.format # "absent" THEN metadata.format ELSE @]

\* mapping_opts after `mapping_opts.setdefault("index", index)`
EsMappingOpts(meta) ==
    IF meta.es_index \notin {"absent", "noindex"} THEN meta.es_index
    ELSE IF meta.index # "absent" THEN meta.index
    ELSE "absent"

\* The override mapping after one field: meta.update(metadata) puts the
\* override's own es.mapping_options object into meta, and setdefault
\* writes the index into that object.
EsOverrideAfter(prop, metadata) ==
    IF metadata.es_index = "noindex" /\ EsMeta(prop, metadata).index # "absent"
    THEN [metadata EXCEPT !.es_index = EsMeta(prop, metadata).index]
    ELSE metadata

\* The field's own metadata after it was mapped: meta is a deep copy.
EsOwnMetadataAfter(prop, metadata) == prop.metadata

\* The format hints of the model that start with "text/".
TextSlashFormats == {"text/html"}

EsStringType(fmt) ==
    IF fmt = "absent" THEN "keyword"
    ELSE IF fmt = "text" \/ fmt \in TextSlashFormats THEN "text"
    ELSE "keyword"

dataclass_field_to_esmapping(prop, metadata) ==
    LET t == dataclass_get_type(prop)
        meta == EsMeta(prop, metadata)
        opts == EsMappingOpts(meta)
        mfield(ty) == Return([type |-> ty,
                              raw |-> (ty = "text"),
                              index |-> opts])
    IN  IF t.type = "date" THEN mfield("date")
        ELSE IF t.type = "datetime" THEN mfield("date")
        ELSE IF t.type = "str" THEN mfield(EsStringType(meta.format))
        ELSE IF t.type = "int" THEN mfield("long")
        ELSE IF t.type = "float" THEN mfield("double")
        ELSE IF t.type = "bool" THEN mfield("boolean")
        \* a nested record builds its mfield and falls through: no return
        \* follows, and its type is none of dict, list, set
        ELSE IF t.type = "dict" THEN mfield("object")
        ELSE IF t.type = "list" THEN mfield("nested")
        ELSE IF t.type = "set" THEN mfield("nested")
        ELSE Raise("KeyError", prop.name)

\* A selection that forgets exclude_fields once include_fields is given; C6
\* does not hold of it.
SelectedIncludeOnly(name, include_fields, exclude_fields) ==
    IF include_fields # <<>>
    THEN name \in Range(include_fields)
    ELSE name \notin Range(exclude_fields)

\* `prop.name in include_fields and prop.name not in exclude_fields`, or
\* `prop.name not in exclude_fields` when include_fields is empty.
Selected(name, include_fields, exclude_fields) ==
    IF include_fields # <<>>
    THEN name \in Range(include_fields) /\ name \notin Range(exclude_fields)
    ELSE name \notin Range(exclude_fields)

RECURSIVE EsProps(_, _, _, _, _, _)
\* The loop of dc2esmapping; acc is mprops, a list of [attr, mapping].
EsProps(fs, i, include_fields, exclude_fields, metadata, acc) ==
    IF i > Len(fs) THEN Return(acc)
    ELSE IF ~Selected(fs[i].name, include_fields, exclude_fields)
         THEN EsProps(fs, i + 1, include_fields, exclude_fields, metadata, acc)
    ELSE LET r == dataclass_field_to_esmapping(fs[i], metadata)
         IN  IF r.exc # "none" THEN r
             ELSE EsProps(fs, i + 1, include_fields, exclude_fields,
                          EsOverrideAfter(fs[i], metadata),
                          Append(acc, [attr |-> fs[i].name, node |-> r.value]))

RECURSIVE EsOverrideAfterLoop(_, _, _, _, _)
\* The override mapping as the loop of dc2esmapping leaves it.
EsOverrideAfterLoop(fs, i, include_fields, exclude_fields, metadata) ==
    IF i > Len(fs) THEN metadata
    ELSE IF ~Selected(fs[i].name, include_fields, exclude_fields)
         THEN EsOverrideAfterLoop(fs, i + 1, include_fields, exclude_fields, metadata)
    ELSE IF dataclass_field_to_esmapping(fs[i], metadata).exc # "none"
         THEN EsOverrideAfter(fs[i], metadata)
    ELSE EsOverrideAfterLoop(fs, i + 1, include_fields, exclude_fields,
                             EsOverrideAfter(fs[i], metadata))

dc2esmapping(obj, metadata, include_fields, exclude_fields) ==
    EsProps(obj.fields, 1, OrEmpty(include_fields), OrEmpty(exclude_fields),
            IF metadata.given THEN metadata.items ELSE NoMeta, <<>>)


(***************************************************************************)
(* dc2jsl: the jsl document.  A field is [cls, name, required, pattern,    *)
(* oneof]: oneof tells whether it is wrapped in OneOfField([f, NullField]).*)
(***************************************************************************)
\* `if not prop.required: return jsl.OneOfField([prop, NullField])`
_set_nullable(prop) ==
    IF ~prop.required THEN [prop EXCEPT !.oneof = TRUE] ELSE prop

EditModes == {"edit", "edit-process"}
Modes == {"default"} \cup EditModes

dataclass_field_to_jsl_field(prop, nullable, mode) ==
    LET update_mode == mode \in EditModes
        t == dataclass_get_type(prop)
        required == IF update_mode THEN FALSE ELSE t.required
        jslfield(cls) == Return([cls |-> cls, name |-> prop.name,
                                 required |-> required, pattern |-> "None",
                                 oneof |-> FALSE])
    IN  IF dataclass_check_type(prop, "date") THEN jslfield("DateTimeField")
        ELSE IF dataclass_check_type(prop, "datetime") THEN jslfield("DateTimeField")
        ELSE IF dataclass_check_type(prop, "str") THEN jslfield("StringField")
        ELSE IF dataclass_check_type(prop, "int") THEN jslfield("IntField")
        ELSE IF dataclass_check_type(prop, "float") THEN jslfield("NumberField")
        ELSE IF dataclass_check_type(prop, "bool") THEN jslfield("BooleanField")
        ELSE IF dataclass_check_type(prop, "dict") THEN jslfield("DictField")
        \* dc2jsl(t["schema"], nullable=nullable): dc2jsl takes no `nullable`
        ELSE IF is_dataclass_field(prop) THEN Raise("TypeError", "nullable")
        ELSE IF dataclass_check_type(prop, "list") THEN jslfield("ArrayField")
        ELSE Raise("KeyError", prop.name)

\* The body of dc2jsl's loop for one mapped field.
JslAttr(prop, nullable) ==
    IF nullable THEN _set_nullable(prop)
    ELSE IF ~prop.required THEN prop
    ELSE IF prop.cls = "StringField" /\ prop.pattern = "None"
         THEN [prop EXCEPT !.pattern = ".+"]
    ELSE prop

RECURSIVE JslAttrs(_, _, _, _, _)
JslAttrs(fs, i, nullable, mode, acc) ==
    IF i > Len(fs) THEN Return(acc)
    ELSE LET r == dataclass_field_to_jsl_field(fs[i], nullable, mode)
         IN  IF r.exc # "none" THEN r
             ELSE JslAttrs(fs, i + 1, nullable, mode,
                           Append(acc, [attr |-> fs[i].name,
                                        node |-> JslAttr(r.value, nullable)]))

dc2jsl(obj, ignore_required, additional_properties, mode) ==
    LET attrs == JslAttrs(obj.fields, 1, ignore_required, mode, <<>>)
    IN  IF attrs.exc # "none" THEN attrs
        \* attrs["Options"] = Options replaces a field's entry of that name
        ELSE Return([attrs |-> SelectSeq(attrs.value, LAMBDA x : x.attr # "Options"),
                     Options |-> [additional_properties |-> additional_properties]])

(***************************************************************************)
(* dc2pgsqla: SQLAlchemy columns.  A column is [name, type_, default,      *)
(* primary_key, index, autoincrement, unique].                             *)
(***************************************************************************)
sqlalchemy_params(prop, typ) ==
    LET t == dataclass_get_type(prop)
    IN  [name |-> prop.name, type_ |-> typ,
         default |-> IF prop.default_factory # "MISSING" THEN prop.default_factory
                     ELSE IF prop.default # "MISSING" THEN prop.default
                     ELSE "absent",
         primary_key |-> t.metadata.primary_key = "True",
         index |-> t.metadata.index = "True",
         autoincrement |-> t.metadata.autoincrement = "True",
         unique |-> t.metadata.unique = "True"]

\* The format hints of the model, cut at their slashes.
FormatParts(fmt) ==
    CASE fmt = "text/html" -> << "text", "html" >>
      [] fmt = "uuid/hex" -> << "uuid", "hex" >>
      [] fmt = "html/text" -> << "html", "text" >>
      [] fmt = "fulltextindex/en/simple" -> << "fulltextindex", "en", "simple" >>
      [] OTHER -> << fmt >>

\* `if str_format and "/" in str_format: str_format.split("/")[0]`
FormatHead(fmt) ==
    IF fmt # "absent" /\ Len(FormatParts(fmt)) > 1 THEN FormatParts(fmt)[1] ELSE fmt

\* A string column typed by the whole format hint.
SqlaStringTypeWhole(prop) ==
    LET str_format == dataclass_get_type(prop).metadata.format
    IN  IF str_format = "text" THEN "Text"
        ELSE IF str_format = "uuid" THEN "UUIDType"
        ELSE IF str_format = "fulltextindex" THEN "TSVectorType"
        ELSE IF prop.metadata.length = "absent" THEN "String(256)"
        ELSE "String(length)"

SqlaStringType(prop) ==
    LET str_format == FormatHead(dataclass_get_type(prop).metadata.format)
    IN  IF str_format = "text" THEN "Text"
        ELSE IF str_format = "uuid" THEN "UUIDType"
        ELSE IF str_format = "fulltextindex" THEN "TSVectorType"
        ELSE IF prop.metadata.length = "absent" THEN "String(256)"
        ELSE "String(length)"

dataclass_field_to_sqla_col(prop) ==
    LET t == dataclass_get_type(prop)
        col(typ) == Return(sqlalchemy_params(prop, typ))
    IN  IF t.type = "date" THEN col("Date")
        ELSE IF t.type = "datetime" THEN col("DateTime(timezone=True)")
        ELSE IF t.type = "str" THEN col(SqlaStringType(prop))
        ELSE IF t.type = "int"
             THEN col(IF t.metadata.format = "bigint" THEN "BigInteger" ELSE "Integer")
        ELSE IF t.type = "float"
             THEN col(IF t.metadata.format = "numeric" THEN "Numeric" ELSE "Float")
        ELSE IF t.type = "bool" THEN col("Boolean")
        ELSE IF is_dataclass_field(prop)
             THEN Raise("NotImplementedError", "Sub schema is not supported")
        ELSE IF t.type = "dict" THEN col("JSONField")
        ELSE IF t.type = "list" THEN col("JSONField")
        ELSE Raise("KeyError", prop.name)

\* sorted(schema.__dataclass_fields__.items(), key=lambda x: x[0]) over the
\* field names of the model.
SortedNames == <<"age", "name", "tags">>

RECURSIVE SqlaCols(_, _, _)
SqlaCols(fs, k, acc) ==
    IF k > Len(SortedNames) THEN Return(acc)
    ELSE LET here == { i \in DOMAIN fs : fs[i].name = SortedNames[k] }
         IN  IF here = {} THEN SqlaCols(fs, k + 1, acc)
             ELSE LET r == dataclass_field_to_sqla_col(fs[CHOOSE i \in here : TRUE])
                  IN  IF r.exc # "none" THEN r
                      ELSE SqlaCols(fs, k + 1, Append(acc, r.value))

dc2pgsqla(obj, name) ==
    LET cols == SqlaCols(obj.fields, 1, <<>>)
    IN  IF cols.exc # "none" THEN cols
        ELSE Return([name |-> IF name = "None" THEN "person" ELSE name,
                     cols |-> cols.value])


(***************************************************************************)
(* dc2colander.  A schema node is [name, oid, typ, tz, missing, default,   *)
(* widget, children]; widget is [cls, hidden, readonly] with cls "None"    *)
(* when the node has no widget; tz is the default_tzinfo of a DateTime     *)
(* type; children are the nodes of a mapping schema.                       *)
(***************************************************************************)
NoWidget == [cls |-> "None", hidden |-> FALSE, readonly |-> FALSE]

\* colander_params lines 182-199
DefaultValue(prop) ==
    LET t == dataclass_get_type(prop)
        default_value == IF t.type = "dict" THEN "{}"
                         ELSE IF t.type = "list" THEN "[]"
                         ELSE IF t.type = "set" THEN "set()"
                         ELSE "None"
    IN  IF prop.default # "MISSING" /\ prop.default # "None" THEN prop.default
        ELSE IF prop.default_factory # "MISSING" /\ prop.default_factory # "None"
             THEN "made"
        ELSE default_value

\* colander_params line 204
MissingValue(prop) ==
    IF dataclass_get_type(prop).required THEN "colander.required"
    ELSE DefaultValue(prop)

\* SchemaNode(**colander_params(prop, oid_prefix, typ=typ, ...))
colander_params(prop, oid_prefix, typ, tz) ==
    [name |-> prop.name,
     oid |-> << oid_prefix, prop.name >>,
     typ |-> typ,
     tz |-> tz,
     missing |-> MissingValue(prop),
     default |-> DefaultValue(prop),
     widget |-> IF prop.metadata.widget # "absent"
                THEN [cls |-> prop.metadata.widget, hidden |-> FALSE, readonly |-> FALSE]
                ELSE NoWidget,
     children |-> <<>>]

\* subtype(): an instance of the nested Schema class.  It is built without
\* colander_params, so it keeps colander.SchemaNode's own missing and
\* default; the enclosing class gives it the attribute's name.
SchemaInstance(cls, attr) ==
    [name |-> attr,
     oid |-> << "deformField", "" >>,
     typ |-> "colander.Mapping",
     tz |-> "",
     missing |-> "colander.required",
     default |-> "colander.null",
     widget |-> NoWidget,
     children |-> cls.attrs]

\* The schema type each mapper instantiates for a declared type, "" when the
\* mapper has no branch of its own for it.
BaseTyp(type) ==
    CASE type = "date" -> "colander.Date"
      [] type = "datetime" -> "colander.DateTime"
      [] type = "str" -> "String"
      [] type = "int" -> "colander.Integer"
      [] type = "float" -> "colander.Float"
      [] type = "bool" -> "Boolean"
      [] type = "dict" -> "Mapping"
      [] type = "list" -> "colander.List"
      [] type = "FileData" -> "deform.FileData"
      [] type = "set" -> "colander.Set"
      [] OTHER -> ""

JsonTyp(type) ==
    CASE type = "date" -> "json.Date"
      [] type = "datetime" -> "json.DateTime"
      [] type = "str" -> "json.Str"
      [] type = "int" -> "json.Int"
      [] type = "float" -> "json.Float"
      [] type = "bool" -> "json.Boolean"
      [] type = "dict" -> "Mapping"
      [] OTHER -> ""

ESjsonTyp(type) ==
    CASE type = "date" -> "es.Date"
      [] type = "datetime" -> "es.DateTime"
      [] type = "str" -> "json.Str"
      [] type = "int" -> "json.Int"
      [] type = "float" -> "json.Float"
      [] type = "bool" -> "json.Boolean"
      [] type = "dict" -> "colander.Mapping"
      [] OTHER -> ""

AvroTyp(type) ==
    CASE type = "date" -> "json.Date"
      [] type = "datetime" -> "json.DateTime"
      [] type = "str" -> "json.Str"
      [] type = "int" -> "json.Int"
      [] type = "float" -> "json.Float"
      [] type = "bool" -> "json.Boolean"
      [] type = "dict" -> "avro.JSON"
      [] OTHER -> ""

\* The default_tzinfo a DateTime type is constructed with: the Avro mapper
\* calls DateTime() with no argument, which is colander's UTC default.
NodeTz(variant, type, default_tzinfo) ==
    IF type # "datetime" THEN ""
    ELSE IF variant = "avro" THEN "UTC"
    ELSE default_tzinfo

Variants == {"colander", "json", "es", "avro"}

VariantTyp(variant, type) ==
    CASE variant = "colander" -> BaseTyp(type)
      [] variant = "json" -> JsonTyp(type)
      [] variant = "es" -> ESjsonTyp(type)
      [] variant = "avro" -> AvroTyp(type)

\* deform.schema.default_widget_makers.get(prop.typ.__class__): keyed by the
\* colander classes themselves, so a subclass finds no entry.
DefaultWidget(typ) ==
    CASE typ = "colander.Mapping" -> "MappingWidget"
      [] typ = "colander.Date" -> "DateInputWidget"
      [] typ = "colander.DateTime" -> "DateTimeInputWidget"
      [] typ = "colander.Integer" -> "TextInputWidget"
      [] typ = "colander.Float" -> "TextInputWidget"
      [] typ = "colander.Set" -> "CheckboxChoiceWidget"
      [] OTHER -> "TextInputWidget"

\* A reading of the metadata that overlooks editable=False; C2 does not
\* hold of it.
NotEditableReadonlyOnly(prop) ==
    prop.metadata.readonly = "True"

\* The names dc2colander appends to readonly_fields (mode edit) or to
\* exclude_fields (mode edit-process), in declaration order.
NotEditable(prop) ==
    prop.metadata.editable = "False" \/ prop.metadata.readonly = "True"

ExplicitReadonly(prop) == prop.metadata.readonly = "True"

RECURSIVE NamesWhere(_, _, _)
NamesWhere(fs, i, mode) ==
    IF i > Len(fs) THEN <<>>
    ELSE LET keep == IF mode \in EditModes THEN NotEditable(fs[i])
                     ELSE ExplicitReadonly(fs[i])
         IN  (IF keep THEN << fs[i].name >> ELSE <<>>) \o NamesWhere(fs, i + 1, mode)

\* A merge of the names by symmetric difference (`^` for `|`): a name the
\* list already holds is dropped from it.  C12 does not hold of it.
ReadonlyAfterSymmetric(obj, mode, readonly_fields) ==
    LET given == OrEmpty(readonly_fields)
        added == IF mode = "edit-process" THEN <<>>
                 ELSE NamesWhere(obj.fields, 1, mode)
    IN  SelectSeq(given, LAMBDA n : n \notin Range(added))
        \o SelectSeq(added, LAMBDA n : n \notin Range(given))

\* dc2colander lines 481-509: the local readonly_fields after `+=`
ReadonlyAfter(obj, mode, readonly_fields) ==
    IF mode = "edit-process" THEN OrEmpty(readonly_fields)
    ELSE OrEmpty(readonly_fields) \o NamesWhere(obj.fields, 1, mode)

\* dc2colander lines 481-509: the local exclude_fields after `+=`
ExcludeAfter(obj, mode, exclude_fields) ==
    IF mode = "edit-process"
    THEN OrEmpty(exclude_fields) \o NamesWhere(obj.fields, 1, mode)
    ELSE OrEmpty(exclude_fields)

\* dc2colander lines 538-560 for one node
PostProcess(node, dcprop, hidden_fields, readonly_fields) ==
    LET w1 == IF node.name \in Range(hidden_fields)
              THEN (IF node.widget.cls = "None"
                    THEN [cls |-> "HiddenWidget", hidden |-> FALSE, readonly |-> FALSE]
                    ELSE [node.widget EXCEPT !.hidden = TRUE])
              ELSE node.widget
        w2 == IF node.name \in Range(readonly_fields)
              THEN [cls |-> IF w1.cls = "None" THEN DefaultWidget(node.typ) ELSE w1.cls,
                    hidden |-> w1.hidden, readonly |-> TRUE]
              ELSE w1
        w3 == IF /\ dataclass_get_type(dcprop).type = "str"
                 /\ dcprop.metadata.format = "text"
                 /\ w2.cls = "None"
              THEN [cls |-> "TextAreaWidget", hidden |-> FALSE, readonly |-> FALSE]
              ELSE w2
    IN  [node EXCEPT !.widget = w3]

RECURSIVE dc2colander(_, _, _, _, _, _, _, _, _, _)
RECURSIVE dataclass_field_to_colander_schemanode(_, _, _, _, _)
RECURSIVE ColanderAttrs(_, _, _, _, _, _, _, _, _)

\* The four field mappers (dc2colander.py 271-415, dc2colanderjson.py
\* 141-247, dc2colanderESjson.py 43-132, dc2colanderavro.py 28-119), which
\* differ in the schema types and in what they hand to the nested call.
dataclass_field_to_colander_schemanode(variant, prop, oid_prefix, mode, default_tzinfo) ==
    LET t == dataclass_get_type(prop)
        typ == VariantTyp(variant, t.type)
        node(ty) == Return(colander_params(prop, oid_prefix, ty,
                                           NodeTz(variant, t.type, default_tzinfo)))
    IN  IF t.metadata.field_factory # "absent" THEN node("field_factory(request)")
        \* date, datetime, str, int, float, bool
        ELSE IF t.type \in PrimitiveTypes THEN node(typ)
        ELSE IF is_dataclass_field(prop)
             THEN LET subtype ==
                        \* the base and JSON mappers hand over the declared
                        \* type, the Elasticsearch and Avro mappers the Field
                        IF variant = "colander"
                        THEN dc2colander(ClassOf(prop), "colander", mode, NoList, NoList,
                                         NoList, NoList, TRUE, "deformField", "UTC")
                        ELSE IF variant = "json"
                        THEN dc2colander(ClassOf(prop), "json", mode, NoList, NoList,
                                         NoList, NoList, TRUE, "deformField",
                                         default_tzinfo)
                        ELSE dc2colander(prop, variant, mode, NoList, NoList,
                                         NoList, NoList, TRUE, "deformField",
                                         default_tzinfo)
                  IN  IF subtype.result.exc # "none" THEN subtype.result
                      ELSE Return(SchemaInstance(subtype.result.value, prop.name))
        ELSE IF t.type = "dict" THEN node(typ)
        \* list, FileData, set: the variants fall back on the base mapper
        ELSE IF t.type \in {"list", "FileData", "set"} THEN node(BaseTyp(t.type))
        ELSE Raise("KeyError", prop.name)

\* dc2colander lines 511-560: the nodes of the selected fields, in
\* declaration order, each post-processed.
ColanderAttrs(fs, i, variant, oid_prefix, mode, default_tzinfo, sel, ro, acc) ==
    IF i > Len(fs) THEN Return(acc)
    ELSE IF ~Selected(fs[i].name, sel.include_fields, sel.exclude_fields)
         THEN ColanderAttrs(fs, i + 1, variant, oid_prefix, mode, default_tzinfo,
                            sel, ro, acc)
    ELSE LET r == dataclass_field_to_colander_schemanode(
                      variant, fs[i], oid_prefix, mode, default_tzinfo)
         IN  IF r.exc # "none" THEN r
             ELSE ColanderAttrs(fs, i + 1, variant, oid_prefix, mode, default_tzinfo,
                                sel, ro,
                                Append(acc, PostProcess(r.value, fs[i],
                                                        ro.hidden_fields,
                                                        ro.readonly_fields)))

\* Returns the call's outcome with the exclude_fields and readonly_fields
\* lists as the call leaves them.
dc2colander(obj, variant, mode, include_fields, exclude_fields, hidden_fields, readonly_fields, include_schema_validators, oid_prefix, default_tzinfo) ==
    \* schema.__dataclass_fields__ exists on a dataclass, not on a Field
    IF obj.kind # "class"
    THEN [result |-> Raise("AttributeError", "__dataclass_fields__"),
          exclude_fields |-> OrEmpty(exclude_fields),
          readonly_fields |-> OrEmpty(readonly_fields)]
    ELSE LET ro == ReadonlyAfter(obj, mode, readonly_fields)
             ex == ExcludeAfter(obj, mode, exclude_fields)
             attrs == ColanderAttrs(obj.fields, 1, variant, oid_prefix, mode,
                                    default_tzinfo,
                                    [include_fields |-> OrEmpty(include_fields),
                                     exclude_fields |-> ex],
                                    [hidden_fields |-> OrEmpty(hidden_fields),
                                     readonly_fields |-> ro],
                                    <<>>)
         IN  [result |-> IF attrs.exc # "none" THEN attrs
                         \* attrs["validator"] = validator replaces a node of
                         \* that name
                         ELSE Return([attrs |->
                                        IF include_schema_validators
                                        THEN SelectSeq(attrs.value,
                                                       LAMBDA x : x.name # "validator")
                                        ELSE attrs.value,
                                      validator |-> include_schema_validators]),
              exclude_fields |-> ex,
              readonly_fields |-> ro]


(***************************************************************************)
(* Values of the schema types.  A value is [kind, n, ymd, hms, tz]:        *)
(*   kind "None", "colander.null", "unset" (no value yet)                  *)
(*   kind "int": the integer n                                             *)
(*   kind "date": the date ymd = <<year, month, day>>                      *)
(*   kind "datetime": the aware datetime ymd, hms = <<hour, minute,        *)
(*        second, millisecond>> in the zone tz                             *)
(*   kind "str": ISO 8601 text; n = 0 for YYYY-MM-DD, n = 1 for a          *)
(*        datetime with its UTC offset, written as the zone tz             *)
(***************************************************************************)
V(kind, n, ymd, hms, tz) == [kind |-> kind, n |-> n, ymd |-> ymd, hms |-> hms, tz |-> tz]
Unset == V("unset", 0, <<0, 0, 0>>, <<0, 0, 0, 0>>, "")
None == V("None", 0, <<0, 0, 0>>, <<0, 0, 0, 0>>, "")
ColanderNull == V("colander.null", 0, <<0, 0, 0>>, <<0, 0, 0, 0>>, "")
IntV(k) == V("int", k, <<0, 0, 0>>, <<0, 0, 0, 0>>, "")
DateV(ymd) == V("date", 0, ymd, <<0, 0, 0, 0>>, "")
DateTimeV(ymd, hms, tz) == V("datetime", 0, ymd, hms, tz)
IsoDate(ymd) == V("str", 0, ymd, <<0, 0, 0, 0>>, "")
IsoDateTime(ymd, hms, tz) == V("str", 1, ymd, hms, tz)

\* Python truthiness of a value: None, colander.null and 0 are falsy.
Truthy(v) ==
    /\ v.kind \notin {"None", "colander.null", "unset"}
    /\ ~(v.kind = "int" /\ v.n = 0)

\* Fixed-offset time zones: minutes east of UTC.
Zones == {"UTC", "+08:00", "-05:00"}
UtcOffset(tz) ==
    CASE tz = "UTC" -> 0
      [] tz = "+08:00" -> 480
      [] tz = "-05:00" -> 0 - 300

IsLeap(y) == (y % 4 = 0) /\ ((y % 100 # 0) \/ (y % 400 = 0))

DaysInMonth(y, m) ==
    IF m = 2 THEN (IF IsLeap(y) THEN 29 ELSE 28)
    ELSE IF m \in {4, 6, 9, 11} THEN 30 ELSE 31

RECURSIVE DaysBeforeMonth(_, _)
DaysBeforeMonth(y, m) ==
    IF m = 1 THEN 0 ELSE DaysBeforeMonth(y, m - 1) + DaysInMonth(y, m - 1)

\* date.toordinal(): day 1 is 0001-01-01.
ToOrdinal(ymd) ==
    LET y1 == ymd[1] - 1
    IN  y1 * 365 + (y1 \div 4) - (y1 \div 100) + (y1 \div 400)
        + DaysBeforeMonth(ymd[1], ymd[2]) + ymd[3]

\* epoch_date = date(1970, 1, 1)
epoch_date == <<1970, 1, 1>>

\* (d - epoch_date).days
DaysSinceEpoch(ymd) == ToOrdinal(ymd) - ToOrdinal(epoch_date)

\* epoch_date + timedelta(days=z): the civil date z days from 1970-01-01.
DateFromDays(z) ==
    LET zz == z + 719468
        era == zz \div 146097
        doe == zz - era * 146097
        yoe == (doe - (doe \div 1460) + (doe \div 36524) - (doe \div 146096)) \div 365
        doy == doe - (365 * yoe + (yoe \div 4) - (yoe \div 100))
        mp == (5 * doy + 2) \div 153
        d == doy - ((153 * mp + 2) \div 5) + 1
        m == IF mp < 10 THEN mp + 3 ELSE mp - 9
        y == yoe + era * 400 + (IF m <= 2 THEN 1 ELSE 0)
    IN  << y, m, d >>

MsPerDay == 24 * 60 * 60 * 1000
MsPerHour == 60 * 60 * 1000

\* The instant of an aware datetime, in milliseconds since the epoch.
InstantOf(dt) ==
    DaysSinceEpoch(dt.ymd) * MsPerDay
    + ((dt.hms[1] * 60 + dt.hms[2]) * 60 + dt.hms[3]) * 1000 + dt.hms[4]
    - UtcOffset(dt.tz) * 60000

\* The aware datetime of instant t in zone tz: fromtimestamp / astimezone.
DateTimeAt(t, tz) ==
    LET local == t + UtcOffset(tz) * 60000
        days == local \div MsPerDay
        rem == local % MsPerDay
    IN  DateTimeV(DateFromDays(days),
                  << rem \div MsPerHour, (rem \div 60000) % 60,
                     (rem \div 1000) % 60, rem % 1000 >>,
                  tz)

astimezone(dt, tz) == DateTimeAt(InstantOf(dt), tz)

\* colander.Date.serialize: null for a falsy appstruct, else isoformat().
ColanderDateSerialize(v) ==
    IF ~Truthy(v) THEN ColanderNull ELSE IsoDate(v.ymd)

\* colander.Date.deserialize: null for a falsy cstruct, else the parsed date.
ColanderDateDeserialize(c) ==
    IF ~Truthy(c) THEN ColanderNull ELSE DateV(c.ymd)

\* colander.DateTime.serialize: null for a falsy appstruct, else isoformat().
ColanderDateTimeSerialize(v) ==
    IF ~Truthy(v) THEN ColanderNull ELSE IsoDateTime(v.ymd, v.hms, v.tz)

\* colander.DateTime.deserialize: null for a falsy cstruct, else the aware
\* datetime the text denotes, in the offset the text carries.
ColanderDateTimeDeserialize(c) ==
    IF ~Truthy(c) THEN ColanderNull ELSE DateTimeV(c.ymd, c.hms, c.tz)

(***************************************************************************)
(* dc2colanderjson.Date                                                    *)
(***************************************************************************)
JsonDateSerialize(v) ==
    LET res == ColanderDateSerialize(v)
    IN  IF res.kind = "colander.null" THEN None
        ELSE IntV(DaysSinceEpoch(v.ymd))

\* `if cstruct and isinstance(cstruct, int)`: the day count is turned into
\* text only when it is truthy.
JsonDateToText(c) ==
    IF Truthy(c) /\ c.kind = "int" THEN IsoDate(DateFromDays(c.n)) ELSE c

JsonDateDeserialize(c) ==
    IF Truthy(c) /\ c.kind \notin {"int", "str"}
    THEN Raise("colander.Invalid", "Date")
    ELSE Return(ColanderDateDeserialize(JsonDateToText(c)))

(***************************************************************************)
(* dc2colanderjson.DateTime.  int(appstruct.timestamp() * 1000) is a       *)
(* product of doubles; on the instants of the model (whole hours plus or   *)
(* minus a few milliseconds) that product is exact.                        *)
(***************************************************************************)
JsonDateTimeSerialize(v) ==
    LET utc == IF Truthy(v) THEN astimezone(v, "UTC") ELSE v
        res == ColanderDateTimeSerialize(utc)
    IN  IF res.kind = "colander.null" THEN None
        ELSE IntV(InstantOf(utc))

\* `if cstruct and isinstance(cstruct, int)`: the timestamp is turned into
\* text only when it is truthy.
JsonDateTimeToText(c) ==
    IF Truthy(c) /\ c.kind = "int"
    THEN LET dt == DateTimeAt(c.n, "UTC") IN IsoDateTime(dt.ymd, dt.hms, dt.tz)
    ELSE c

JsonDateTimeDeserialize(c, default_tzinfo) ==
    IF Truthy(c) /\ c.kind \notin {"int", "str"}
    THEN Raise("colander.Invalid", "DateTime")
    ELSE LET res == ColanderDateTimeDeserialize(JsonDateTimeToText(c))
         IN  IF Truthy(res) THEN Return(astimezone(res, default_tzinfo))
             ELSE Return(res)

(***************************************************************************)
(* dc2colanderESjson.DateTime                                              *)
(***************************************************************************)
EsDateTimeDeserialize(c, default_tzinfo) ==
    LET res == ColanderDateTimeDeserialize(c)
    IN  IF Truthy(res) THEN Return(astimezone(res, default_tzinfo))
        ELSE Return(res)

\* node.typ.deserialize(node, cstruct) of a datetime node, whose type holds
\* the default_tzinfo it was constructed with.
NodeDeserialize(x, c) ==
    CASE x.typ = "json.DateTime" -> JsonDateTimeDeserialize(c, x.tz)
      [] x.typ = "es.DateTime" -> EsDateTimeDeserialize(c, x.tz)
      [] x.typ = "colander.DateTime" -> Return(ColanderDateTimeDeserialize(c))

DateTimeTyps == {"json.DateTime", "es.DateTime", "colander.DateTime"}

\* The datetime nodes of a form schema: its own and those of its nested
\* mapping schemas.
DateTimeNodes(form) ==
    { x \in Range(form.attrs) : x.typ \in DateTimeTyps }
    \cup UNION { { y \in Range(x.children) : y.typ \in DateTimeTyps } :
                   x \in Range(form.attrs) }

\* What arrives from the wire for a datetime node: a timestamp for the
\* JSON type, ISO 8601 text, or nothing.
WireDateTimes(typ) ==
    (IF typ = "json.DateTime" THEN { IntV(MsPerHour), IntV(0 - MsPerHour) } ELSE {})
    \cup { IsoDateTime(<<1970, 1, 1>>, <<12, 0, 0, 0>>, "-05:00"), None }


(***************************************************************************)
(* The aggregate validator dc2colander attaches to the form schema.  A     *)
(* record-level validator is [id, reports, field, message,                 *)
(* required_binds]: what it reports for the data it is handed ("None" or   *)
(* a dict with a message and possibly a field name) and the bind variables *)
(* it declares.  A request is [app, get_formvalidators, supplied]; the     *)
(* bindings of a schema are [given, keys], not given until it is bound.    *)
(***************************************************************************)
FormValidator(id, reports, field, required_binds) ==
    [id |-> id, reports |-> reports, field |-> field,
     message |-> IF reports = "None" THEN "" ELSE "rejected",
     required_binds |-> required_binds]

NoBindings == [given |-> FALSE, keys |-> {}]
Bound(keys) == [given |-> TRUE, keys |-> keys]

NoRequest == [app |-> FALSE, get_formvalidators |-> FALSE, supplied |-> <<>>]

\* An appstruct is a mapping from keys to values.  A value is a scalar of
\* the value model above, a nested mapping Dict(m) or a list ListOf(l).
Dict(m) == [kind |-> "dict", items |-> m]
ListOf(l) == [kind |-> "list", items |-> l]

RECURSIVE replace_colander_null(_, _)
\* A nested mapping is handed to replace_colander_null(v), without value;
\* the elements of a list are compared with colander.null one by one.
replace_colander_null(appstruct_, value) ==
    [k \in DOMAIN appstruct_ |->
       LET v == appstruct_[k]
       IN  IF v.kind = "dict" THEN Dict(replace_colander_null(v.items, None))
           ELSE IF v.kind = "list"
           THEN ListOf([i \in DOMAIN v.items |->
                          IF v.items[i].kind # "colander.null" THEN v.items[i]
                          ELSE value])
           ELSE IF v.kind # "colander.null" THEN v ELSE value]

\* getattr(schema, "__validators__", []), then those of
\* request.app.get_formvalidators(schema) when the request has them.
form_validators(obj, request) ==
    obj.__validators__
    \o (IF request.app /\ request.get_formvalidators THEN request.supplied
        ELSE <<>>)

\* A validator that gathers into the record type's own list.
DeclaredAfterShared(obj, request) == form_validators(obj, request)

\* The record type's __validators__ after a run: `form_validators +=`
\* extends the deep copy the run made, the list itself stays as it was.
DeclaredAfter(obj, request) == obj.__validators__

\* The keyword arguments a validator is called with besides schema, data
\* and mode: `**(self.bindings or {"request": request})`.
BindKwargs(bindings) ==
    IF bindings.given /\ bindings.keys # {} THEN bindings.keys ELSE {"request"}

\* node[name]: the child of that name, KeyError when there is none.
HasChild(node, name) == \E x \in Range(node.attrs) : x.name = name

RECURSIVE RunValidators(_, _, _, _, _, _, _, _)
\* The loop over form_validators, from the i-th on; log holds the
\* invocations made so far.
RunValidators(fvs, i, obj, node, vdata, mode, bindings, log) ==
    IF i > Len(fvs) THEN [outcome |-> Return(None), invoked |-> log]
    ELSE LET fv == fvs[i]
             unbound == { k \in Range(fv.required_binds) :
                            ~bindings.given \/ k \notin bindings.keys }
             made == Append(log, [validator |-> fv.id, schema |-> obj.__name__,
                                  data |-> vdata, mode |-> mode,
                                  kwargs |-> BindKwargs(bindings)])
         IN  IF unbound # {}
             THEN [outcome |-> Raise("AssertionError", fv.id), invoked |-> log]
             ELSE IF fv.reports = "None"
             THEN RunValidators(fvs, i + 1, obj, node, vdata, mode, bindings, made)
             ELSE IF fv.field # ""
             THEN [outcome |-> IF HasChild(node, fv.field)
                               THEN Raise("colander.Invalid", fv.field)
                               ELSE Raise("KeyError", fv.field),
                   invoked |-> made]
             ELSE [outcome |-> Raise("colander.Invalid", ""), invoked |-> made]

\* The validator method of the schema class: self is the (bound) schema,
\* node its root node.
validator(obj, request, mode, node, bindings, appstruct_) ==
    RunValidators(form_validators(obj, request), 1, obj, node,
                  replace_colander_null(appstruct_, None), mode, bindings, <<>>)


(***************************************************************************)
(* ValidatorsWrapper and PreparersWrapper.  A wrapper is [callables,       *)
(* request, schema, mode] as __init__ stores them.  A field validator is   *)
(* [id, rejects]: it returns an error text for the values it rejects and   *)
(* nothing for the others.  A preparer is [id]: what it returns for a      *)
(* value is given by Prepared.                                             *)
(***************************************************************************)
Wrapper(callables, request, obj, mode) ==
    [callables |-> callables, request |-> request, schema |-> obj.__name__,
     mode |-> mode]

\* validator(request=..., schema=..., field=..., value=..., mode=...): the
\* error the validator returns, "" for None.
ErrorOf(fv, value) == IF value \in fv.rejects THEN fv.id ELSE ""

\* Validators that go on after an error and raise the first one at the end.
RECURSIVE CallValidatorsAll(_, _, _, _, _, _)
CallValidatorsAll(self, node, value, i, log, first) ==
    IF i > Len(self.callables)
    THEN [outcome |-> IF first = "" THEN Return(None)
                      ELSE Raise("colander.Invalid", node.name),
          invoked |-> log]
    ELSE LET error == ErrorOf(self.callables[i], value)
         IN  CallValidatorsAll(self, node, value, i + 1,
                 Append(log, [callable |-> self.callables[i].id,
                              request |-> self.request, schema |-> self.schema,
                              field |-> node.name, value |-> value,
                              mode |-> self.mode, returned |-> None]),
                 IF first = "" THEN error ELSE first)

ValidatorsWrapperAll(self, node, value) ==
    CallValidatorsAll(self, node, value, 1, <<>>, "")

RECURSIVE CallValidators(_, _, _, _, _)
\* `for validator in self.validators`, from the i-th on.
CallValidators(self, node, value, i, log) ==
    IF i > Len(self.callables) THEN [outcome |-> Return(None), invoked |-> log]
    ELSE LET error == ErrorOf(self.callables[i], value)
             made == Append(log, [callable |-> self.callables[i].id,
                                  request |-> self.request,
                                  schema |-> self.schema,
                                  field |-> node.name, value |-> value,
                                  mode |-> self.mode, returned |-> None])
         IN  IF error # ""
             THEN [outcome |-> Raise("colander.Invalid", node.name),
                   invoked |-> made]
             ELSE CallValidators(self, node, value, i + 1, made)

\* ValidatorsWrapper.__call__(node, value)
ValidatorsWrapper(self, node, value) == CallValidators(self, node, value, 1, <<>>)

\* What a preparer returns for a value.
Prepared(pr, value) ==
    CASE pr.id = "keep" -> value
      [] pr.id = "default" -> IF value = None THEN IntV(0) ELSE value
      [] pr.id = "next" -> IF value.kind = "int" THEN IntV(value.n + 1) ELSE value
      [] pr.id = "clear" -> None

RECURSIVE CallPreparers(_, _, _, _)
\* `for preparer in self.preparers: value = preparer(...)`, from the i-th on.
CallPreparers(self, value, i, log) ==
    IF i > Len(self.callables) THEN [outcome |-> Return(value), invoked |-> log]
    ELSE LET out == Prepared(self.callables[i], value)
         IN  CallPreparers(self, out, i + 1,
                 Append(log, [callable |-> self.callables[i].id,
                              request |-> self.request, schema |-> self.schema,
                              field |-> "", value |-> value,
                              mode |-> self.mode, returned |-> out]))

\* A wrapper that hands colander.null on to the first preparer.
PreparersWrapperKeepNull(self, value) == CallPreparers(self, value, 1, <<>>)

\* PreparersWrapper.__call__(value)
PreparersWrapper(self, value) ==
    CallPreparers(self, IF value = ColanderNull THEN None ELSE value, 1, <<>>)


(***************************************************************************)
(* The state machine.  Each action is one call of a converter, or of a     *)
(* schema type's serialize / deserialize, with arguments drawn from small  *)
(* sets; call records the arguments and result the outcome.                *)
(***************************************************************************)
NoSchema == Class(<<>>)
NoLists == [exclude_fields |-> <<>>, readonly_fields |-> <<>>]

IncludeChoices ==
    { NoList, List(<<>>), List(<< "name" >>), List(<< "age", "name" >>) }
ExcludeChoices == { NoList, List(<< "name" >>), List(<< "age" >>) }
HiddenChoices == { NoList, List(<< "name" >>) }

\* The metadata override dc2esmapping applies to every field.
NoOverride == [given |-> FALSE, items |-> NoMeta]
OverrideChoices ==
    { NoOverride, [given |-> TRUE, items |-> [NoMeta EXCEPT !.index = "False"]] }

TypesUnchanged == UNCHANGED <<appstruct, cstruct, back, invoked>>

\* A converter is called once the caller is done with the previous result.
Idle == call.op = "none"

\* The caller drops the result it was given and what it deserialized with
\* it; its lists stay as the call left them.
Discard ==
    /\ ~Idle
    /\ call' = NoCall
    /\ result' = NoResult
    /\ appstruct' = Unset /\ cstruct' = Unset /\ back' = Return(Unset)
    /\ invoked' = <<>>
    /\ UNCHANGED <<schema, caller>>

Dc2Avsc ==
    /\ Idle
    /\ \E inc \in IncludeChoices, exc \in ExcludeChoices,
       ign \in {"default", "True", "False"} :
        /\ call' = [op |-> "dc2avsc", include_fields |-> inc, exclude_fields |-> exc,
                    ignore_required |-> ign, mode |-> "default"]
        /\ result' = dc2avsc(schema, inc, exc, "inverter", ign # "False")
        /\ UNCHANGED <<schema, caller>>
        /\ TypesUnchanged

Dc2Esmapping ==
    /\ Idle
    /\ \E inc \in IncludeChoices, exc \in ExcludeChoices, md \in OverrideChoices :
        /\ call' = [op |-> "dc2esmapping", include_fields |-> inc,
                    exclude_fields |-> exc, metadata |-> md, mode |-> "default"]
        /\ result' = dc2esmapping(schema, md, inc, exc)
        /\ UNCHANGED <<schema, caller>>
        /\ TypesUnchanged

\* dc2esmapping(schema, metadata=md, ...) with the caller's own mapping md.
Dc2EsmappingOverride ==
    /\ Idle
    /\ \E inc \in IncludeChoices, exc \in ExcludeChoices :
         LET md == caller.metadata
             items == IF md.given THEN md.items ELSE NoMeta
         IN  /\ call' = [op |-> "dc2esmapping", include_fields |-> inc,
                         exclude_fields |-> exc, metadata |-> md, mode |-> "default",
                         kept |-> TRUE]
             /\ result' = dc2esmapping(schema, md, inc, exc)
             /\ caller' = [caller EXCEPT !.metadata.items =
                             IF md.given
                             THEN EsOverrideAfterLoop(schema.fields, 1, OrEmpty(inc),
                                                      OrEmpty(exc), items)
                             ELSE @]
             /\ schema' = [schema EXCEPT !.fields =
                             [i \in DOMAIN schema.fields |->
                                [schema.fields[i] EXCEPT !.metadata =
                                   EsOwnMetadataAfter(schema.fields[i], items)]]]
    /\ TypesUnchanged

Dc2Jsl ==
    /\ Idle
    /\ \E ign \in BOOLEAN, addl \in BOOLEAN, mode \in Modes :
        /\ call' = [op |-> "dc2jsl", include_fields |-> NoList,
                    exclude_fields |-> NoList, ignore_required |-> ign,
                    additional_properties |-> addl, mode |-> mode]
        /\ result' = dc2jsl(schema, ign, addl, mode)
        /\ UNCHANGED <<schema, caller>>
        /\ TypesUnchanged

Dc2Pgsqla ==
    /\ Idle
    /\ \E name \in {"None", "people"} :
        /\ call' = [op |-> "dc2pgsqla", include_fields |-> NoList,
                    exclude_fields |-> NoList, name |-> name, mode |-> "default"]
        /\ result' = dc2pgsqla(schema, name)
        /\ UNCHANGED <<schema, caller>>
        /\ TypesUnchanged

\* A call of dc2colander or of one of its variants.  own tells, for
\* exclude_fields and readonly_fields, whether the caller hands over its
\* long-lived list or nothing; a list handed over non-empty is the very
\* object the call appends to, also when the call then raises.
ColanderCall(op, variant, mode, inc, hid, own, tz, val) ==
    LET exc == IF own.exclude THEN List(caller.exclude_fields) ELSE NoList
        ro == IF own.readonly THEN List(caller.readonly_fields) ELSE NoList
        out == dc2colander(schema, variant, mode, inc, exc, hid, ro, val,
                           "deformField", tz)
    IN  /\ Len(out.exclude_fields) <= MaxListLen
        /\ Len(out.readonly_fields) <= MaxListLen
        /\ call' = [op |-> op, mode |-> mode, include_fields |-> inc,
                    exclude_fields |-> exc, hidden_fields |-> hid,
                    readonly_fields |-> ro, include_schema_validators |-> val,
                    default_tzinfo |-> tz, own |-> own]
        /\ result' = out.result
        /\ caller' =
             [caller EXCEPT !.exclude_fields = IF exc.given /\ exc.items # <<>>
                                               THEN out.exclude_fields
                                               ELSE @,
                            !.readonly_fields = IF ro.given /\ ro.items # <<>>
                                                THEN out.readonly_fields
                                                ELSE @]
        /\ UNCHANGED schema
        /\ TypesUnchanged

OwnChoices == [exclude : BOOLEAN, readonly : BOOLEAN]
OwnNothing == [exclude |-> FALSE, readonly |-> FALSE]

\* dc2colander with its field-name filters.
Dc2Colander ==
    /\ Idle
    /\ \E mode \in Modes, inc \in IncludeChoices, hid \in HiddenChoices,
          own \in OwnChoices :
        ColanderCall("dc2colander", "colander", mode, inc, hid, own, "UTC", TRUE)

\* dc2colander and its variants, called with a mode and a time zone.
Dc2ColanderModes ==
    /\ Idle
    /\ \E mode \in Modes, tz \in Zones, val \in BOOLEAN :
        ColanderCall("dc2colander", "colander", mode, NoList, NoList, OwnNothing,
                     tz, val)

Dc2ColanderJson ==
    /\ Idle
    /\ \E mode \in Modes, tz \in Zones, val \in BOOLEAN :
        ColanderCall("dc2colanderjson", "json", mode, NoList, NoList, OwnNothing,
                     tz, val)

Dc2ColanderESjson ==
    /\ Idle
    /\ \E mode \in Modes, tz \in Zones, val \in BOOLEAN :
        ColanderCall("dc2colanderESjson", "es", mode, NoList, NoList, OwnNothing,
                     tz, val)

Dc2ColanderAvro ==
    /\ Idle
    /\ \E mode \in Modes, tz \in Zones, val \in BOOLEAN :
        ColanderCall("dc2colanderavro", "avro", mode, NoList, NoList, OwnNothing,
                     tz, val)

ColanderOps ==
    {"dc2colander", "dc2colanderjson", "dc2colanderESjson", "dc2colanderavro"}

VariantOf(op) ==
    CASE op = "dc2colander" -> "colander"
      [] op = "dc2colanderjson" -> "json"
      [] op = "dc2colanderESjson" -> "es"
      [] op = "dc2colanderavro" -> "avro"

\* The caller makes the call it has just made once more: the same converter,
\* the same record type and the same option objects, its own lists as the
\* first call left them.
Again ==
    /\ ~Idle
    /\ \/ /\ call.op = "dc2avsc"
          /\ result' = dc2avsc(schema, call.include_fields, call.exclude_fields,
                               "inverter", call.ignore_required # "False")
          /\ UNCHANGED <<schema, caller, call>>
          /\ TypesUnchanged
       \/ /\ call.op = "dc2esmapping"
          /\ "kept" \notin DOMAIN call
          /\ result' = dc2esmapping(schema, call.metadata, call.include_fields,
                                    call.exclude_fields)
          /\ UNCHANGED <<schema, caller, call>>
          /\ TypesUnchanged
       \* the override mapping is the caller's own object, as the first call
       \* left it
       \/ /\ call.op = "dc2esmapping"
          /\ "kept" \in DOMAIN call
          /\ result' = dc2esmapping(schema, caller.metadata, call.include_fields,
                                    call.exclude_fields)
          /\ caller' = [caller EXCEPT !.metadata.items =
                          IF caller.metadata.given
                          THEN EsOverrideAfterLoop(schema.fields, 1,
                                                   OrEmpty(call.include_fields),
                                                   OrEmpty(call.exclude_fields), @)
                          ELSE @]
          /\ UNCHANGED <<schema, call>>
          /\ TypesUnchanged
       \/ /\ call.op = "dc2jsl"
          /\ result' = dc2jsl(schema, call.ignore_required,
                              call.additional_properties, call.mode)
          /\ UNCHANGED <<schema, caller, call>>
          /\ TypesUnchanged
       \/ /\ call.op = "dc2pgsqla"
          /\ result' = dc2pgsqla(schema, call.name)
          /\ UNCHANGED <<schema, caller, call>>
          /\ TypesUnchanged
       \/ /\ call.op \in ColanderOps
          /\ ColanderCall(call.op, VariantOf(call.op), call.mode,
                          call.include_fields, call.hidden_fields, call.own,
                          call.default_tzinfo, call.include_schema_validators)

\* The caller deserializes a wire value with one of the datetime nodes of
\* the form schema the last call returned.
DeserializeField ==
    /\ call.op \in ColanderOps
    /\ result.exc = "none"
    /\ back = Return(Unset)
    /\ \E x \in DateTimeNodes(result.value) :
         \E c \in WireDateTimes(x.typ) :
           /\ cstruct' = c
           /\ back' = NodeDeserialize(x, c)
    /\ UNCHANGED <<schema, caller, call, result, appstruct, invoked>>

\* The document converters over records of every declared type.
InitDocs ==
    /\ schema \in Schemas(TypeDescs \cup MetaDescs)
    /\ caller = NoLists
    /\ call = NoCall
    /\ result = NoResult
    /\ appstruct = Unset /\ cstruct = Unset /\ back = Return(Unset)
    /\ invoked = <<>>

NextDocs == Dc2Avsc \/ Dc2Esmapping \/ Dc2Jsl \/ Dc2Pgsqla \/ Discard

SpecDocs == InitDocs /\ [][NextDocs]_vars

\* The assemblers that take field-name filters, over records whose fields
\* carry metadata hints, with the caller's lists kept between calls.
FormDescs ==
    MetaDescs \cup
    { Fld("", "bytes", "MISSING", "MISSING", NoMeta),
      Fld("", "int", "MISSING", "MISSING", NoMeta),
      Fld("", "dataclass", "MISSING", "MISSING", [NoMeta EXCEPT !.editable = "False"]) }

InitForm ==
    /\ schema \in Schemas(FormDescs)
    /\ caller \in [exclude_fields : { <<>>, << "name" >>, << "age" >> },
                   readonly_fields : { <<>>, << "age" >> }]
    /\ call = NoCall
    /\ result = NoResult
    /\ appstruct = Unset /\ cstruct = Unset /\ back = Return(Unset)
    /\ invoked = <<>>

NextForm == Dc2Colander \/ Dc2Esmapping \/ Discard

SpecForm == InitForm /\ [][NextForm]_vars

\* dc2colander and its three variants over records of every declared type.
InitVariants ==
    /\ schema \in Schemas(TypeDescs)
    /\ caller = NoLists
    /\ call = NoCall
    /\ result = NoResult
    /\ appstruct = Unset /\ cstruct = Unset /\ back = Return(Unset)
    /\ invoked = <<>>

NextVariants ==
    \/ Dc2ColanderModes \/ Dc2ColanderJson \/ Dc2ColanderESjson \/ Dc2ColanderAvro
    \/ DeserializeField \/ Discard

SpecVariants == InitVariants /\ [][NextVariants]_vars


\* Every converter, over records whose fields carry metadata hints, each
\* call possibly made a second time with the same arguments.
RepeatDescs ==
    { Fld("", "str", "MISSING", "MISSING", NoMeta),
      Fld("", "str", "dflt", "MISSING", [NoMeta EXCEPT !.readonly = "True"]),
      Fld("", "str", "dflt", "MISSING", [NoMeta EXCEPT !.editable = "False"]),
      Fld("", "str", "dflt", "MISSING", [NoMeta EXCEPT !.widget = "widget"]),
      Fld("", "dataclass", "MISSING", "MISSING", NoMeta),
      Fld("", "bytes", "MISSING", "MISSING", NoMeta) }

\* The override mappings a caller of SpecRepeat keeps: none, or one whose
\* es.mapping_options is a mapping without "index".
KeptOverrides ==
    { NoOverride, [given |-> TRUE, items |-> [NoMeta EXCEPT !.es_index = "noindex"]] }

\* A record whose second field carries an index hint and whose first field
\* carries none.
HintedLast ==
    Class(<< Named(Fld("", "str", "MISSING", "MISSING", NoMeta), FieldNames[1]),
             Named(Fld("", "str", "MISSING", "MISSING",
                       [NoMeta EXCEPT !.index = "False"]), FieldNames[2]) >>)

InitRepeat ==
    /\ schema \in Schemas(RepeatDescs) \cup { HintedLast }
    /\ caller \in [exclude_fields : { <<>>, << "name" >>, << "age" >> },
                   readonly_fields : { <<>>, << "age" >> },
                   metadata : KeptOverrides]
    /\ call = NoCall
    /\ result = NoResult
    /\ appstruct = Unset /\ cstruct = Unset /\ back = Return(Unset)
    /\ invoked = <<>>

NextRepeat ==
    \/ Dc2Avsc \/ Dc2Esmapping \/ Dc2EsmappingOverride \/ Dc2Jsl \/ Dc2Pgsqla
    \/ Dc2Colander \/ Dc2ColanderJson \/ Dc2ColanderESjson \/ Dc2ColanderAvro
    \/ Again \/ Discard

SpecRepeat == InitRepeat /\ [][NextRepeat]_vars

\* Records whose fields may carry the names of attributes the assemblers
\* set themselves.
SpecialNames == {"name", "validator", "Options"}

NameDescs ==
    { Fld("", "str", "MISSING", "MISSING", NoMeta),
      Fld("", "int", "dflt", "MISSING", NoMeta) }

RECURSIVE NamedFieldSeqs(_)
\* The field lists of n fields with distinct names.
NamedFieldSeqs(n) ==
    IF n = 0 THEN { <<>> }
    ELSE { Append(t[1], Named(t[2], t[3])) :
             t \in { u \in NamedFieldSeqs(n - 1) \X NameDescs \X SpecialNames :
                       \A i \in DOMAIN u[1] : u[1][i].name # u[3] } }

InitNames ==
    /\ schema \in { Class(fs) :
                      fs \in UNION { NamedFieldSeqs(n) : n \in 1..MaxFields } }
    /\ caller \in [exclude_fields : { <<>>, << "name" >> }, readonly_fields : { <<>> }]
    /\ call = NoCall
    /\ result = NoResult
    /\ appstruct = Unset /\ cstruct = Unset /\ back = Return(Unset)
    /\ invoked = <<>>

NextNames == Dc2Colander \/ Dc2Avsc \/ Dc2Esmapping \/ Dc2Jsl \/ Discard

SpecNames == InitNames /\ [][NextNames]_vars

(***************************************************************************)
(* dc2colander with a request and record-level validators: the form        *)
(* schema is built, possibly bound, and then validates an appstruct.       *)
(***************************************************************************)
\* The validators a record type or an application may carry.
ValidatorPool ==
    { FormValidator("passes", "None", "", <<>>),
      FormValidator("rejects", "dict", "", <<>>),
      FormValidator("rejects_name", "dict", "name", <<>>),
      FormValidator("rejects_age", "dict", "age", <<>>),
      FormValidator("needs_user", "None", "", << "user" >>) }

RECURSIVE ValidatorLists(_)
\* The lists of at most n validators of the pool, none of them twice.
ValidatorLists(n) ==
    IF n = 0 THEN { <<>> }
    ELSE ValidatorLists(n - 1)
         \cup { Append(t[1], t[2]) :
                  t \in { u \in ValidatorLists(n - 1) \X ValidatorPool :
                            Len(u[1]) = n - 1 /\ u[2] \notin Range(u[1]) } }

Requests ==
    { NoRequest,
      [app |-> TRUE, get_formvalidators |-> FALSE, supplied |-> <<>>] }
    \cup { [app |-> TRUE, get_formvalidators |-> TRUE, supplied |-> l] :
             l \in ValidatorLists(MaxSupplied) }

BindingChoices == { Bound({}), Bound({"request"}), Bound({"request", "user"}) }

ValidatedDescs ==
    { Fld("", "str", "MISSING", "MISSING", NoMeta),
      Fld("", "int", "dflt", "MISSING", [NoMeta EXCEPT !.editable = "False"]) }

InitValidated ==
    /\ \E c \in Schemas(ValidatedDescs), l \in ValidatorLists(MaxDeclared) :
         schema = [kind |-> c.kind, __name__ |-> c.__name__, fields |-> c.fields,
                   __validators__ |-> l]
    /\ caller = NoLists
    /\ call = NoCall
    /\ result = NoResult
    /\ appstruct = Unset /\ cstruct = Unset /\ back = Return(Unset)
    /\ invoked = <<>>

\* dc2colander(schema, request=request, mode=mode,
\*             include_schema_validators=val)
Dc2ColanderRequest ==
    /\ Idle
    /\ \E mode \in Modes, val \in BOOLEAN, request \in Requests :
         LET out == dc2colander(schema, "colander", mode, NoList, NoList, NoList,
                                NoList, val, "deformField", "UTC")
         IN  /\ call' = [op |-> "dc2colander", mode |-> mode,
                         include_fields |-> NoList, exclude_fields |-> NoList,
                         hidden_fields |-> NoList, readonly_fields |-> NoList,
                         include_schema_validators |-> val,
                         default_tzinfo |-> "UTC", own |-> OwnNothing,
                         request |-> request, bindings |-> NoBindings]
             /\ result' = out.result
    /\ UNCHANGED <<schema, caller>>
    /\ TypesUnchanged

\* schema.bind(**kw): the schema the caller goes on with carries bindings.
Bind ==
    /\ call.op = "dc2colander"
    /\ result.exc = "none"
    /\ ~call.bindings.given
    /\ appstruct = Unset
    /\ \E b \in BindingChoices : call' = [call EXCEPT !.bindings = b]
    /\ UNCHANGED <<schema, caller, result>>
    /\ TypesUnchanged

\* The form's data, one value for each node.
Appstructs(node) ==
    { [k \in { x.name : x \in Range(node.attrs) } |-> v] :
        v \in { ColanderNull, IntV(1) } }

\* Deserializing with the schema runs its validator on the appstruct.
Validate ==
    /\ call.op = "dc2colander"
    /\ result.exc = "none"
    /\ result.value.validator
    /\ appstruct = Unset
    /\ \E a \in Appstructs(result.value) :
         LET run == validator(schema, call.request, call.mode, result.value,
                              call.bindings, a)
         IN  /\ appstruct' = a
             /\ back' = run.outcome
             /\ invoked' = run.invoked
    /\ schema' = [schema EXCEPT !.__validators__ = DeclaredAfter(schema, call.request)]
    /\ UNCHANGED <<caller, call, result, cstruct>>

NextValidated == Dc2ColanderRequest \/ Bind \/ Validate \/ Discard

SpecValidated == InitValidated /\ [][NextValidated]_vars

(***************************************************************************)
(* replace_colander_null on appstructs with nested mappings and lists.     *)
(***************************************************************************)
Scalars == { ColanderNull, IntV(1) }

RECURSIVE ValuesOfDepth(_)
\* The values nested at most d deep: scalars, one-key mappings and
\* one-element lists of shallower values.
ValuesOfDepth(d) ==
    IF d = 0 THEN Scalars
    ELSE Scalars
         \cup { Dict([k \in {"inner"} |-> v]) : v \in ValuesOfDepth(d - 1) }
         \cup { ListOf(<< v >>) : v \in ValuesOfDepth(d - 1) }

InitNulls ==
    /\ schema = NoSchema
    /\ caller = NoLists
    /\ \E value \in { None, IntV(0) } :
         call = [op |-> "none", value |-> value]
    /\ result = NoResult
    /\ appstruct \in [{"first", "second"} -> ValuesOfDepth(MaxDepth)]
    /\ cstruct = Unset /\ back = Return(Unset)
    /\ invoked = <<>>

\* replace_colander_null(appstruct, value)
ReplaceColanderNull ==
    /\ call.op = "none"
    /\ call' = [call EXCEPT !.op = "replace_colander_null"]
    /\ back' = Return(replace_colander_null(appstruct, call.value))
    /\ UNCHANGED <<schema, caller, result, appstruct, cstruct, invoked>>

NextNulls == ReplaceColanderNull

SpecNulls == InitNulls /\ [][NextNulls]_vars

(***************************************************************************)
(* The wrappers of a field's validators and preparers, applied to a value. *)
(***************************************************************************)
FieldValues == { ColanderNull, None, IntV(1), IntV(2) }

FieldValidators ==
    { [id |-> "any", rejects |-> {}],
      [id |-> "notnull", rejects |-> { ColanderNull, None }],
      [id |-> "notone", rejects |-> { IntV(1) }] }

Preparers == { [id |-> i] : i \in { "keep", "default", "next", "clear" } }

\* The lists of at most MaxWrapped callables of a pool.
CallableLists(pool) ==
    UNION { [1..n -> pool] : n \in 0..MaxWrapped }

InitWrappers ==
    /\ schema \in Schemas({ Fld("", "int", "MISSING", "MISSING", NoMeta) })
    /\ caller = NoLists
    /\ call = NoCall
    /\ result = NoResult
    /\ appstruct = Unset /\ cstruct = Unset /\ back = Return(Unset)
    /\ invoked = <<>>

\* ValidatorsWrapper(validators, request, schema, mode)(node, value)
CallValidatorsWrapper ==
    /\ Idle
    /\ \E l \in CallableLists(FieldValidators), mode \in Modes,
          value \in FieldValues, i \in DOMAIN schema.fields :
         LET self == Wrapper(l, "request", schema, mode)
             run == ValidatorsWrapper(self, [name |-> schema.fields[i].name], value)
         IN  /\ call' = [op |-> "ValidatorsWrapper", self |-> self,
                         node |-> schema.fields[i].name]
             /\ appstruct' = value
             /\ back' = run.outcome
             /\ invoked' = run.invoked
    /\ UNCHANGED <<schema, caller, result, cstruct>>

\* PreparersWrapper(preparers, request, schema, mode)(value)
CallPreparersWrapper ==
    /\ Idle
    /\ \E l \in CallableLists(Preparers), mode \in Modes, value \in FieldValues :
         LET self == Wrapper(l, "request", schema, mode)
             run == PreparersWrapper(self, value)
         IN  /\ call' = [op |-> "PreparersWrapper", self |-> self, node |-> ""]
             /\ appstruct' = value
             /\ back' = run.outcome
             /\ invoked' = run.invoked
    /\ UNCHANGED <<schema, caller, result, cstruct>>

NextWrappers == CallValidatorsWrapper \/ CallPreparersWrapper \/ Discard

SpecWrappers == InitWrappers /\ [][NextWrappers]_vars

(***************************************************************************)
(* dc2pgsqla over string fields with format, length and column hints.      *)
(***************************************************************************)
StringFormats ==
    { "absent", "text", "uuid", "fulltextindex", "email", "text/html",
      "uuid/hex", "html/text", "fulltextindex/en/simple" }

\* A hint is absent, True, False or a true value other than True.
FlagValues == { "absent", "True", "False", "1" }

ColumnDescs ==
    { Fld("", "str", "MISSING", "MISSING",
          [NoMeta EXCEPT !.format = fmt, !.length = len, !.primary_key = fl[1],
                         !.index = fl[2], !.autoincrement = fl[3], !.unique = fl[4]]) :
        fmt \in StringFormats, len \in { "absent", "length" },
        fl \in FlagValues \X FlagValues \X FlagValues \X FlagValues }

InitColumns ==
    /\ schema \in Schemas(ColumnDescs)
    /\ caller = NoLists
    /\ call = NoCall
    /\ result = NoResult
    /\ appstruct = Unset /\ cstruct = Unset /\ back = Return(Unset)
    /\ invoked = <<>>

NextColumns == Dc2Pgsqla \/ Discard

SpecColumns == InitColumns /\ [][NextColumns]_vars

(***************************************************************************)
(* The JSON type of the Avro variant, the schema type of a mapping-typed   *)
(* field.  A text is [kind |-> "text", of, items]: the JSON text of a      *)
(* value (of = "json"), the text str() makes of it (of = "repr"), or, with *)
(* items None, the empty text (of = "empty"), a text of white space (of =  *)
(* "blank") or some other text that is no JSON (of = "plain").             *)
(***************************************************************************)
Text(of, v) == [kind |-> "text", of |-> of, items |-> v]

\* json.dumps(appstruct, indent=2)
json_dumps(v) == Text("json", v)

\* json.loads(cstruct): the value a JSON text is the text of.
json_loads(c) ==
    IF c.of = "json" THEN Return(c.items) ELSE Raise("JSONDecodeError", "")

\* bool(v) of a mapping, a list, a text or a scalar
NotEmpty(v) ==
    IF v.kind \in { "dict", "list" } THEN DOMAIN v.items # {}
    ELSE IF v.kind = "text" THEN v.of # "empty"
    ELSE Truthy(v)

\* Str.serialize (dc2colanderjson.py), over colander.String.serialize:
\* a text is returned as it is, any other value as the text str() makes
\* of it.
StrSerialize(v) ==
    IF v.kind = "None" THEN None
    ELSE IF v.kind = "colander.null" THEN None
    ELSE IF v.kind = "text" THEN v
    ELSE Text("repr", v)

\* JSON.serialize
JSONSerialize(v) == StrSerialize(IF NotEmpty(v) THEN json_dumps(v) ELSE v)

\* Str.deserialize (dc2colanderjson.py), over colander.String.deserialize:
\* given a value that is no text, colander returns the text str() makes of
\* it or raises Invalid, depending on its version.
StrDeserialize(c) ==
    IF c.kind = "None" THEN { Return(ColanderNull) }
    ELSE IF c.kind = "text" /\ c.of = "empty" THEN { Return(c) }
    ELSE IF ~NotEmpty(c) THEN { Return(ColanderNull) }
    ELSE IF c.kind = "text" THEN { Return(c) }
    ELSE { Return(Text("repr", c)), Raise("colander.Invalid", "is not a string") }

\* `cstruct.strip()` of a text is empty for a blank text only.
Blank(c) == c.of \in { "empty", "blank" }

\* JSON.deserialize
JSONDeserialize(c) ==
    IF c.kind = "text" /\ NotEmpty(c) /\ ~Blank(c)
    THEN LET loaded == json_loads(c)
         IN  IF loaded.exc # "none" THEN { loaded }
             ELSE StrDeserialize(loaded.value)
    ELSE StrDeserialize(c)

\* The mappings a mapping-typed field may hold.
JsonValues ==
    { None, IntV(1), IntV(2), Dict([k \in {"inner"} |-> IntV(1)]),
      ListOf(<< IntV(1) >>) }

Mappings ==
    { Dict(m) : m \in UNION { [ks -> JsonValues] : ks \in SUBSET {"first", "second"} } }

InitJson ==
    /\ schema = NoSchema
    /\ caller = NoLists
    /\ call = [op |-> "none", typ |-> "avro.JSON", default_tzinfo |-> "UTC"]
    /\ result = NoResult
    /\ back = Return(Unset)
    /\ invoked = <<>>
    /\ \/ appstruct \in Mappings \cup { None } /\ cstruct = Unset
       \/ /\ appstruct = Unset
          /\ cstruct \in { json_dumps(m) : m \in Mappings }
                         \cup { None, Text("empty", None), Text("blank", None),
                                Text("plain", None) }

\* node.serialize(appstruct) of a node typed JSON()
JsonSerialize ==
    /\ call.typ = "avro.JSON"
    /\ appstruct # Unset /\ cstruct = Unset
    /\ cstruct' = JSONSerialize(appstruct)
    /\ call' = [call EXCEPT !.op = "serialize"]
    /\ UNCHANGED <<schema, caller, result, appstruct, back, invoked>>

\* node.deserialize(cstruct) of a node typed JSON()
JsonDeserialize ==
    /\ call.typ = "avro.JSON"
    /\ cstruct # Unset /\ back = Return(Unset)
    /\ back' \in JSONDeserialize(cstruct)
    /\ call' = [call EXCEPT !.op = "deserialize"]
    /\ UNCHANGED <<schema, caller, result, appstruct, cstruct, invoked>>

NextJson == JsonSerialize \/ JsonDeserialize

SpecJson == InitJson /\ [][NextJson]_vars

(***************************************************************************)
(* dc2esmapping with a metadata override the caller keeps between calls,   *)
(* over fields with index hints and es.mapping_options.                    *)
(***************************************************************************)
IndexDescs ==
    { Fld("", "str", "MISSING", "MISSING",
          [NoMeta EXCEPT !.index = ix, !.es_index = es]) :
        ix \in { "absent", "True", "False" },
        es \in { "absent", "noindex", "True", "False" } }

Overrides ==
    { NoOverride,
      [given |-> TRUE, items |-> NoMeta],
      [given |-> TRUE, items |-> [NoMeta EXCEPT !.index = "False"]],
      [given |-> TRUE, items |-> [NoMeta EXCEPT !.es_index = "noindex"]],
      [given |-> TRUE, items |-> [NoMeta EXCEPT !.es_index = "True"]],
      [given |-> TRUE, items |-> [NoMeta EXCEPT !.index = "True",
                                                !.es_index = "noindex"]] }

InitMappings ==
    /\ schema \in Schemas(IndexDescs)
    /\ \E md \in Overrides :
         caller = [exclude_fields |-> <<>>, readonly_fields |-> <<>>, metadata |-> md]
    /\ call = NoCall
    /\ result = NoResult
    /\ appstruct = Unset /\ cstruct = Unset /\ back = Return(Unset)
    /\ invoked = <<>>

NextMappings == Dc2EsmappingOverride \/ Discard

SpecMappings == InitMappings /\ [][NextMappings]_vars

(***************************************************************************)
(* The JSON-safe Date and DateTime types: a value is serialized, and what  *)
(* was serialized (or a value that arrives from the wire) is deserialized. *)
(* call names the type under test and its default_tzinfo.                  *)
(***************************************************************************)
\* The dates within MaxDays days of the epoch.
Dates ==
    { DateV(<< y, m, d >>) : y \in {1969, 1970}, m \in 1..12, d \in 1..31 }

DatesInRange ==
    { v \in Dates :
        /\ v.ymd[3] <= DaysInMonth(v.ymd[1], v.ymd[2])
        /\ DaysSinceEpoch(v.ymd) \in (0 - MaxDays)..MaxDays }

\* Aware datetimes within MaxMillis ms of a whole hour, in every zone.  On
\* these the float product appstruct.timestamp() * 1000 is a whole number,
\* so int() of it is the exact count of milliseconds.
ClockTimes ==
    { << h, 0, 0, ms >> : h \in {0, 12, 23}, ms \in 0..MaxMillis }
    \cup { << h, 59, 59, 1000 - ms >> : h \in {0, 11, 23}, ms \in 1..MaxMillis }

DateTimes ==
    { DateTimeV(ymd, hms, tz) :
        ymd \in { <<1969, 12, 31>>, <<1970, 1, 1>>, <<1970, 1, 2>> },
        hms \in ClockTimes, tz \in Zones }

TypeCall(op, typ, tz) == [op |-> op, typ |-> typ, default_tzinfo |-> tz]

InitTypes ==
    /\ schema = NoSchema
    /\ caller = NoLists
    /\ result = NoResult
    /\ back = Return(Unset)
    /\ invoked = <<>>
    /\ \/ /\ call = TypeCall("none", "json.Date", "UTC")
          /\ \/ appstruct \in DatesInRange \cup {None} /\ cstruct = Unset
             \/ /\ appstruct = Unset
                /\ cstruct \in { IntV(n) : n \in (0 - MaxDays)..MaxDays } \cup {None}
       \/ /\ \E tz \in Zones : call = TypeCall("none", "json.DateTime", tz)
          /\ \/ appstruct \in DateTimes \cup {None} /\ cstruct = Unset
             \/ /\ appstruct = Unset
                /\ cstruct \in { IntV(n) : n \in (0 - MaxMillis)..MaxMillis } \cup {None}

DateSerialize ==
    /\ call.typ = "json.Date"
    /\ appstruct # Unset /\ cstruct = Unset
    /\ cstruct' = JsonDateSerialize(appstruct)
    /\ call' = [call EXCEPT !.op = "serialize"]
    /\ UNCHANGED <<schema, caller, result, appstruct, back, invoked>>

DateDeserialize ==
    /\ call.typ = "json.Date"
    /\ cstruct # Unset /\ back = Return(Unset)
    /\ back' = JsonDateDeserialize(cstruct)
    /\ call' = [call EXCEPT !.op = "deserialize"]
    /\ UNCHANGED <<schema, caller, result, appstruct, cstruct, invoked>>

DateTimeSerialize ==
    /\ call.typ = "json.DateTime"
    /\ appstruct # Unset /\ cstruct = Unset
    /\ cstruct' = JsonDateTimeSerialize(appstruct)
    /\ call' = [call EXCEPT !.op = "serialize"]
    /\ UNCHANGED <<schema, caller, result, appstruct, back, invoked>>

DateTimeDeserialize ==
    /\ call.typ = "json.DateTime"
    /\ cstruct # Unset /\ back = Return(Unset)
    /\ back' = JsonDateTimeDeserialize(cstruct, call.default_tzinfo)
    /\ call' = [call EXCEPT !.op = "deserialize"]
    /\ UNCHANGED <<schema, caller, result, appstruct, cstruct, invoked>>

NextTypes ==
    DateSerialize \/ DateDeserialize \/ DateTimeSerialize \/ DateTimeDeserialize

SpecTypes == InitTypes /\ [][NextTypes]_vars


(***************************************************************************)
(* Properties.                                                             *)
(***************************************************************************)
\* A field declared without a default and without a `required` override.
DeclaredRequired(f) ==
    f.default = "MISSING" /\ f.default_factory = "MISSING"

NoFilters ==
    call.include_fields.items = <<>> /\ call.exclude_fields.items = <<>>

\* C1: dc2avsc called with the record type only gives a primitive field
\* declared without a default a type list without "null", and any other
\* primitive field a type list with "null".
C1_AvscNullIffNotRequired ==
    (/\ call.op = "dc2avsc"
     /\ call.ignore_required = "default"
     /\ ~call.include_fields.given /\ ~call.exclude_fields.given
     /\ result.exc = "none")
    => \A i \in DOMAIN schema.fields :
         LET f == schema.fields[i]
         IN  (f.type \in PrimitiveTypes /\ f.metadata.required = "absent")
             => (("null" \in Range(result.value.fields[i].type))
                 <=> ~DeclaredRequired(f))

\* The nodes of the form schema the last call returned that carry name n.
NodesNamed(n) == { x \in Range(result.value.attrs) : x.name = n }

\* C2: dc2colander without include / exclude lists keeps every field that
\* is marked editable=False or readonly, with a readonly widget, under mode
\* edit, and leaves it out under mode edit-process; every other field is
\* kept in both modes.
C2_EditModesFilter ==
    (/\ call.op = "dc2colander"
     /\ call.mode \in EditModes
     /\ NoFilters
     /\ result.exc = "none")
    => \A i \in DOMAIN schema.fields :
         LET f == schema.fields[i]
             nodes == NodesNamed(f.name)
         IN  IF f.metadata.editable = "False" \/ f.metadata.readonly = "True"
             THEN /\ call.mode = "edit"
                     => nodes # {} /\ \A x \in nodes : x.widget.readonly
                  /\ call.mode = "edit-process" => nodes = {}
             ELSE nodes # {}

\* An edit-process call that left out a non-editable field and kept an
\* editable one.
C2_Witness ==
    /\ call.op = "dc2colander"
    /\ call.mode = "edit-process"
    /\ NoFilters
    /\ result.exc = "none"
    /\ \E i, j \in DOMAIN schema.fields :
         /\ schema.fields[i].metadata.editable = "False"
         /\ NodesNamed(schema.fields[i].name) = {}
         /\ schema.fields[j].metadata.editable = "absent"
         /\ schema.fields[j].metadata.readonly = "absent"
         /\ NodesNamed(schema.fields[j].name) # {}

\* The record has a nested-record field and no field of an unsupported type.
HasNestedRecord ==
    /\ \E i \in DOMAIN schema.fields : schema.fields[i].type = "dataclass"
    /\ \A i \in DOMAIN schema.fields : schema.fields[i].type # "bytes"

\* The names of the nested record's fields a form of the given mode keeps.
NestedNamesKept(mode) ==
    { Address.fields[k].name : k \in
        { k \in DOMAIN Address.fields :
            mode = "edit-process" =>
              /\ Address.fields[k].metadata.editable # "False"
              /\ Address.fields[k].metadata.readonly # "True" } }

\* C3: each of the four form-schema converters converts a record with a
\* nested-record field, and the node for that field is a mapping schema of
\* the same variant with one child per field of the nested record that the
\* mode keeps.
C3_NestedFormSchema ==
    (call.op \in ColanderOps /\ HasNestedRecord)
    => /\ result.exc = "none"
       /\ \A i \in DOMAIN schema.fields :
            schema.fields[i].type = "dataclass"
            => \E x \in NodesNamed(schema.fields[i].name) :
                 /\ x.typ = "colander.Mapping"
                 /\ { c.name : c \in Range(x.children) } = NestedNamesKept(call.mode)
                 /\ \A c \in Range(x.children) :
                      c.name = "street" => c.typ = VariantTyp(VariantOf(call.op), "str")

\* The record's fields are primitives and nested records, at least one of
\* the latter.
PrimitivesAndNested ==
    /\ \E i \in DOMAIN schema.fields : schema.fields[i].type = "dataclass"
    /\ \A i \in DOMAIN schema.fields :
         schema.fields[i].type \in PrimitiveTypes \cup {"dataclass"}

\* C4: dc2avsc, dc2jsl and dc2esmapping convert a record that has a
\* nested-record field.
C4_NestedDocuments ==
    (call.op \in {"dc2avsc", "dc2jsl", "dc2esmapping"} /\ PrimitivesAndNested)
    => result.exc = "none"

\* Exactly one field, at position i, has an unsupported type; the others
\* are primitives, and the call's filters select field i.
OnlyUnsupported(i) ==
    /\ schema.fields[i].type = "bytes"
    /\ \A j \in DOMAIN schema.fields \ {i} : schema.fields[j].type \in PrimitiveTypes
    /\ Selected(schema.fields[i].name, call.include_fields.items,
                call.exclude_fields.items)

\* C5: a converter that meets a field of an unsupported type raises
\* KeyError carrying that field.
C5_UnsupportedKeyError ==
    call.op \in {"dc2avsc", "dc2jsl", "dc2esmapping", "dc2pgsqla"}
    => \A i \in DOMAIN schema.fields :
         OnlyUnsupported(i)
         => result.exc = "KeyError" /\ result.carries = schema.fields[i].name

\* The field names the call's include_fields / exclude_fields select.
SelectedNames ==
    { n \in FieldNamesOf(schema) :
        /\ call.include_fields.items # <<>> => n \in Range(call.include_fields.items)
        /\ n \notin Range(call.exclude_fields.items) }

\* C6: dc2colander in the default mode and dc2esmapping emit exactly the
\* fields named in include_fields (every field when it is absent or empty)
\* that exclude_fields does not name.
C6_IncludeExclude ==
    /\ (call.op = "dc2colander" /\ call.mode = "default" /\ result.exc = "none")
       => { x.name : x \in Range(result.value.attrs) } = SelectedNames
    /\ (call.op = "dc2esmapping" /\ result.exc = "none")
       => { x.attr : x \in Range(result.value) } = SelectedNames

\* A default-mode dc2colander call whose exclude_fields removed a name that
\* include_fields lists, and that kept another field.
C6_Witness ==
    /\ call.op = "dc2colander" /\ call.mode = "default" /\ result.exc = "none"
    /\ \E n \in Range(call.include_fields.items) :
         n \in Range(call.exclude_fields.items) /\ n \in FieldNamesOf(schema)
    /\ result.value.attrs # <<>>

\* C7: dc2avsc with include_fields / exclude_fields emits exactly the
\* selected fields.
C7_AvscIncludeExclude ==
    (call.op = "dc2avsc" /\ result.exc = "none")
    => { x.name : x \in Range(result.value.fields) } = SelectedNames

\* The default value of a field as the documentation words it: the
\* declared default, else the default factory's result, else {} / [] /
\* set() for dict / list / set fields, else None.  A declared default of
\* None counts as no declared default.
DocumentedDefault(f) ==
    IF f.default \notin {"MISSING", "None"} THEN f.default
    ELSE IF f.default_factory # "MISSING" THEN "made"
    ELSE IF f.type = "dict" THEN "{}"
    ELSE IF f.type = "list" THEN "[]"
    ELSE IF f.type = "set" THEN "set()"
    ELSE "None"

\* C8: in dc2colander and its three variants the node of every field, a
\* nested-record field included, has missing = colander.required exactly
\* when the field is required and else the field's default value, and has
\* that default value as its default.
C8_MissingAndDefault ==
    (call.op \in ColanderOps /\ result.exc = "none")
    => \A i \in DOMAIN schema.fields :
         LET f == schema.fields[i]
         IN  \A x \in NodesNamed(f.name) :
               /\ x.default = DocumentedDefault(f)
               /\ x.missing = IF dataclass_get_type(f).required
                              THEN "colander.required"
                              ELSE DocumentedDefault(f)

\* C9: the JSON Date type serializes a date to the number of days from
\* 1970-01-01 to it, and deserializing that number gives the date back,
\* for 1970-01-01 itself and for earlier dates too.
C9_DateRoundTrip ==
    (call.typ = "json.Date" /\ appstruct.kind = "date")
    => /\ cstruct # Unset
          => /\ cstruct.kind = "int"
             /\ cstruct.n \in (0 - MaxDays)..MaxDays
             /\ DateFromDays(cstruct.n) = appstruct.ymd
       /\ back # Return(Unset) => back = Return(appstruct)

\* C10: the JSON DateTime type serializes an aware datetime to the
\* milliseconds since the epoch, and deserializing that number gives the
\* same instant in the type's default time zone, for the epoch instant
\* itself and for earlier instants too.
C10_DateTimeRoundTrip ==
    (call.typ = "json.DateTime" /\ appstruct.kind = "datetime")
    => /\ cstruct # Unset
          => cstruct = IntV(InstantOf(appstruct))
       /\ back # Return(Unset)
          => /\ back.exc = "none"
             /\ back.value.kind = "datetime"
             /\ back.value.tz = call.default_tzinfo
             /\ InstantOf(back.value) = InstantOf(appstruct)

\* C11: with dc2colanderjson, dc2colanderESjson and dc2colanderavro called
\* with a default_tzinfo, every non-null datetime deserialized by a
\* datetime field of the produced schema, top-level or nested, is expressed
\* in that default_tzinfo.
C11_DeserializedInDefaultTz ==
    (/\ call.op \in {"dc2colanderjson", "dc2colanderESjson", "dc2colanderavro"}
     /\ back.exc = "none"
     /\ back.value.kind = "datetime")
    => back.value.tz = call.default_tzinfo

\* C12: a call made a second time with the same record type and the same
\* option objects returns an output structurally equal to the first: the
\* same fields and, per field, the same type, required marker, default and
\* readonly / hidden state.
C12_SameCallSameOutput ==
    [][(call.op # "none" /\ call'.op = call.op) => result' = result]_vars

\* A form schema returned by a second dc2colander call that was handed the
\* caller's readonly list as the first call had extended it.
C12_Witness ==
    /\ call.op = "dc2colander"
    /\ call.mode = "edit"
    /\ call.own.readonly
    /\ result.exc = "none"
    /\ Len(call.readonly_fields.items) = 2
    /\ Len(caller.readonly_fields) = 3
    /\ \E x \in Range(result.value.attrs) : x.widget.readonly

\* C13: a dc2colander call, in any mode, leaves the lists the caller handed
\* over with the contents they had before the call.
C13_CallerListsUntouched ==
    call.op = "dc2colander"
    => /\ call.own.exclude => caller.exclude_fields = call.exclude_fields.items
       /\ call.own.readonly => caller.readonly_fields = call.readonly_fields.items

\* The names of the field entries of the output, in the output's order.
OutputNames ==
    CASE call.op = "dc2colander" ->
           [i \in DOMAIN result.value.attrs |-> result.value.attrs[i].name]
      [] call.op = "dc2avsc" ->
           [i \in DOMAIN result.value.fields |-> result.value.fields[i].name]
      [] call.op = "dc2esmapping" ->
           [i \in DOMAIN result.value |-> result.value[i].attr]
      [] call.op = "dc2jsl" ->
           [i \in DOMAIN result.value.attrs |-> result.value.attrs[i].attr]

\* The record's field names the call does not filter out, in declaration
\* order.
KeptNames ==
    SelectSeq([i \in DOMAIN schema.fields |-> schema.fields[i].name],
              LAMBDA n : n \in SelectedNames)

\* C14: for dc2colander, dc2avsc, dc2esmapping and dc2jsl, whatever the
\* field names, each field that is not filtered out appears exactly once
\* in the output under its own name, a filtered-out field does not appear,
\* no other entry appears, and dc2avsc keeps the declaration order.
C14_FieldsOnceEach ==
    (call.op \in {"dc2colander", "dc2avsc", "dc2esmapping", "dc2jsl"}
     /\ result.exc = "none")
    => /\ \A n \in Range(OutputNames) \cup FieldNamesOf(schema) :
            Cardinality({ i \in DOMAIN OutputNames : OutputNames[i] = n })
              = IF n \in Range(KeptNames) THEN 1 ELSE 0
       /\ call.op = "dc2avsc" => OutputNames = KeptNames

\* Every field of the record has one of the supported types other than a
\* nested record.
OnlyPlainSupported ==
    \A i \in DOMAIN schema.fields :
      schema.fields[i].type \in SupportedTypes \ {"dataclass"}

\* C15: every per-field mapper returns a fragment, without raising, for a
\* field of each supported type: string, integer, float, boolean, date,
\* datetime, dict, list, set and binary / file.
C15_MappersTotal ==
    (call.op \in {"dc2avsc", "dc2esmapping", "dc2jsl", "dc2pgsqla"}
     /\ OnlyPlainSupported)
    => result.exc = "none"

\* The jsl field the last dc2jsl call emitted for the record's field f.
JslFieldOf(f) ==
    (CHOOSE x \in Range(result.value.attrs) : x.attr = f.name).node

DefaultModeJsl ==
    call.op = "dc2jsl" /\ call.mode = "default" /\ result.exc = "none"

\* C16: dc2jsl, for either value of ignore_required, emits every field that
\* is not required as a one-of of the field and a null field, and every
\* required field unwrapped.
C16_JslNullableIffNotRequired ==
    DefaultModeJsl
    => \A i \in DOMAIN schema.fields :
         JslFieldOf(schema.fields[i]).oneof
           <=> ~dataclass_get_type(schema.fields[i]).required

\* C17: dc2jsl called with ignore_required=True emits every field, required
\* or not, as a one-of of the field and a null field.
C17_JslIgnoreRequiredAllNullable ==
    (DefaultModeJsl /\ call.ignore_required)
    => \A i \in DOMAIN schema.fields : JslFieldOf(schema.fields[i]).oneof

\* C18: dc2jsl, for either value of ignore_required, gives every required
\* string field without an explicit pattern the pattern ".+", and gives it
\* to no field that is not required.
C18_JslCatchAllPattern ==
    DefaultModeJsl
    => \A i \in DOMAIN schema.fields :
         LET f == schema.fields[i]
         IN  /\ (f.type = "str" /\ dataclass_get_type(f).required)
                  => JslFieldOf(f).pattern = ".+"
             /\ ~dataclass_get_type(f).required => JslFieldOf(f).pattern # ".+"

\* C19: under mode edit or edit-process every field that appears in the
\* output of dc2colander, of one of its variants or of dc2jsl is marked
\* not required, whatever it is under the default mode.
C19_EditModesNonRequired ==
    /\ (call.op \in ColanderOps /\ call.mode \in EditModes /\ result.exc = "none")
         => \A x \in Range(result.value.attrs) : x.missing # "colander.required"
    /\ (call.op = "dc2jsl" /\ call.mode \in EditModes /\ result.exc = "none")
         => \A x \in Range(result.value.attrs) : ~x.node.required

\* The record-level validators of the last call, in the order stated:
\* those of the record type, then those the application supplies.
GatheredValidators ==
    schema.__validators__
    \o (IF call.request.app /\ call.request.get_formvalidators
        THEN call.request.supplied ELSE <<>>)

\* The first of the gathered validators that reports a failure, 0 if none.
FirstFailure ==
    LET failing == { i \in DOMAIN GatheredValidators :
                       GatheredValidators[i].reports # "None" }
    IN  IF failing = {} THEN 0
        ELSE CHOOSE i \in failing : \A j \in failing : i <= j

\* The aggregate validator has run on an appstruct.
ValidatorRan == call.op = "dc2colander" /\ appstruct # Unset

\* C20: the aggregate validator invokes the record-level validators in
\* order, the declared ones before the supplied ones, each with the schema,
\* the data and the mode; at the first one that reports a failure it raises
\* colander.Invalid, for the named field when the report names a field of
\* the record and for the whole document otherwise, and invokes no later
\* one; when none reports a failure it raises nothing.
C20_AggregateValidator ==
    ValidatorRan
    => LET fvs == GatheredValidators
           k == FirstFailure
           last == IF k = 0 THEN Len(fvs) ELSE k
       IN  /\ Len(invoked) = last
           /\ \A i \in 1..last :
                /\ i <= Len(invoked)
                /\ invoked[i].validator = fvs[i].id
                /\ invoked[i].schema = schema.__name__
                /\ invoked[i].mode = call.mode
                /\ invoked[i].data =
                     [n \in DOMAIN appstruct |->
                        IF appstruct[n] = ColanderNull THEN None ELSE appstruct[n]]
           /\ k = 0 => back.exc = "none"
           /\ k # 0
                => /\ back.exc = "colander.Invalid"
                   /\ back.carries =
                        IF fvs[k].field \in FieldNamesOf(schema) THEN fvs[k].field
                        ELSE ""

\* The gathered validators that declare a bind variable the schema's
\* bindings do not supply.
MissingBinds ==
    { i \in DOMAIN GatheredValidators :
        \E k \in Range(GatheredValidators[i].required_binds) :
          ~call.bindings.given \/ k \notin call.bindings.keys }

\* C21: when a gathered validator declares, in __required_binds__, a
\* binding the schema's bindings do not supply, the aggregate validator
\* raises AssertionError, never colander.Invalid, and that validator is
\* not invoked.
C21_MissingBindAsserts ==
    (ValidatorRan /\ MissingBinds # {})
    => /\ back.exc = "AssertionError"
       /\ \A i \in MissingBinds :
            \A j \in DOMAIN invoked :
              invoked[j].validator # GatheredValidators[i].id

RECURSIVE NullsReplaced(_, _)
\* The value v with every colander.null in it, at any depth, replaced.
NullsReplaced(v, value) ==
    IF v.kind = "dict"
    THEN Dict([k \in DOMAIN v.items |-> NullsReplaced(v.items[k], value)])
    ELSE IF v.kind = "list"
    THEN ListOf([i \in DOMAIN v.items |-> NullsReplaced(v.items[i], value)])
    ELSE IF v.kind = "colander.null" THEN value ELSE v

\* C22: replace_colander_null(appstruct, value) returns the appstruct with
\* every colander.null, at any depth of nested mappings and lists, replaced
\* by value, and every other value kept.
C22_NullsReplacedEverywhere ==
    call.op = "replace_colander_null"
    => back.value = [k \in DOMAIN appstruct |-> NullsReplaced(appstruct[k], call.value)]

\* The first callable of the last wrapper call that returns an error for
\* the value, 0 if none does.
FirstError ==
    LET failing == { i \in DOMAIN call.self.callables :
                       appstruct \in call.self.callables[i].rejects }
    IN  IF failing = {} THEN 0
        ELSE CHOOSE i \in failing : \A j \in failing : i <= j

\* C23: ValidatorsWrapper applied to a node and a value invokes its
\* validators in list order, each with the request, the record type, the
\* node's name, the value and the mode; at the first validator that returns
\* an error it raises colander.Invalid on the node and invokes no later
\* validator; when none returns an error it raises nothing.
C23_ValidatorsWrapperInOrder ==
    call.op = "ValidatorsWrapper"
    => LET k == FirstError
           last == IF k = 0 THEN Len(call.self.callables) ELSE k
       IN  /\ Len(invoked) = last
           /\ \A i \in 1..last :
                /\ i <= Len(invoked)
                /\ invoked[i].callable = call.self.callables[i].id
                /\ invoked[i].request = call.self.request
                /\ invoked[i].schema = schema.__name__
                /\ invoked[i].field = call.node
                /\ invoked[i].value = appstruct
                /\ invoked[i].mode = call.self.mode
           /\ k = 0 => back.exc = "none"
           /\ k # 0 => (back.exc = "colander.Invalid" /\ back.carries = call.node)

\* A validator in the middle of three rejected the value.
C23_Witness ==
    /\ call.op = "ValidatorsWrapper"
    /\ Len(call.self.callables) = 3
    /\ FirstError = 2
    /\ back.exc = "colander.Invalid"
    /\ Len(invoked) = 2

\* C24: PreparersWrapper applied to a value invokes every preparer once, in
\* list order, with the request, the record type and the mode; the first
\* receives None for colander.null and the value itself otherwise, each
\* later one what the one before returned, and the last one's result is
\* what the wrapper returns.
C24_PreparersWrapperThreads ==
    call.op = "PreparersWrapper"
    => LET n == Len(call.self.callables)
           given == IF appstruct = ColanderNull THEN None ELSE appstruct
       IN  /\ Len(invoked) = n
           /\ back.exc = "none"
           /\ \A i \in 1..n :
                /\ i <= Len(invoked)
                /\ invoked[i].callable = call.self.callables[i].id
                /\ invoked[i].request = call.self.request
                /\ invoked[i].schema = schema.__name__
                /\ invoked[i].mode = call.self.mode
                /\ invoked[i].value = IF i = 1 THEN given ELSE invoked[i - 1].returned
                /\ invoked[i].returned = Prepared(call.self.callables[i], invoked[i].value)
           /\ back.value = IF n = 0 THEN given ELSE invoked[n].returned

\* colander.null went through three preparers that changed it step by step.
C24_Witness ==
    /\ call.op = "PreparersWrapper"
    /\ appstruct = ColanderNull
    /\ Len(invoked) = 3
    /\ invoked[1].returned = IntV(0)
    /\ invoked[2].returned = IntV(1)
    /\ back.value = None

\* C25: in the output of dc2colander every string field whose metadata
\* carries format "text" and that declares no widget of its own has a
\* text-area widget, also when the field is hidden or readonly.
C25_TextFormatTextArea ==
    (call.op = "dc2colander" /\ result.exc = "none")
    => \A i \in DOMAIN schema.fields :
         LET f == schema.fields[i]
         IN  (/\ f.type = "str"
              /\ f.metadata.format = "text"
              /\ f.metadata.widget = "absent")
             => \A x \in NodesNamed(f.name) : x.widget.cls = "TextAreaWidget"

\* The column the last dc2pgsqla call made for the field f.
ColumnOf(f) == CHOOSE c \in Range(result.value.cols) : c.name = f.name

\* C26: the column of a string field is Text when its format hint, taken
\* up to the first "/", is "text", a UUID type when it is "uuid", a
\* search-vector type when it is "fulltextindex", and else a String of the
\* `length` hint, 256 when there is none; primary_key, index, autoincrement
\* and unique are set on the column exactly when the hint is True.
C26_StringColumn ==
    (call.op = "dc2pgsqla" /\ result.exc = "none")
    => \A i \in DOMAIN schema.fields :
         LET f == schema.fields[i]
             head == FormatParts(f.metadata.format)[1]
             c == ColumnOf(f)
         IN  f.type = "str"
             => /\ c.type_ = CASE head = "text" -> "Text"
                               [] head = "uuid" -> "UUIDType"
                               [] head = "fulltextindex" -> "TSVectorType"
                               [] OTHER -> IF f.metadata.length = "absent"
                                           THEN "String(256)"
                                           ELSE "String(length)"
                /\ c.primary_key <=> f.metadata.primary_key = "True"
                /\ c.index <=> f.metadata.index = "True"
                /\ c.autoincrement <=> f.metadata.autoincrement = "True"
                /\ c.unique <=> f.metadata.unique = "True"

\* A column was made for a string field with a format hint that has a
\* slash, a length and a unique hint that is true without being True.
C26_Witness ==
    /\ call.op = "dc2pgsqla"
    /\ result.exc = "none"
    /\ \E i \in DOMAIN schema.fields :
         /\ schema.fields[i].metadata.format = "uuid/hex"
         /\ schema.fields[i].metadata.length = "length"
         /\ schema.fields[i].metadata.unique = "1"
         /\ schema.fields[i].metadata.index = "True"
         /\ ColumnOf(schema.fields[i]).type_ = "UUIDType"

\* C27: the JSON type of the Avro variant serializes every non-empty
\* mapping to its JSON text, and deserializing that text gives a mapping
\* equal to the one serialized.
C27_JsonRoundTrip ==
    (/\ call.typ = "avro.JSON"
     /\ appstruct # Unset
     /\ appstruct.kind = "dict"
     /\ DOMAIN appstruct.items # {})
    => /\ cstruct # Unset => cstruct = Text("json", appstruct)
       /\ call.op = "deserialize" => back = Return(appstruct)

\* A step in which the aggregate validator runs.
ValidatorRuns == call.op = "dc2colander" /\ appstruct = Unset /\ appstruct' # Unset

\* C28: no step, and so no run of the aggregate validator, changes the
\* record type's __validators__ list: the validators the application
\* supplies are not appended to it, and a run that raises nothing has
\* invoked each declared validator once, followed by the supplied ones.
C28_DeclaredValidatorsKept ==
    [][/\ schema'.__validators__ = schema.__validators__
       /\ (ValidatorRuns /\ back'.exc = "none")
            => /\ Len(invoked') = Len(schema.__validators__)
                                  + (IF call.request.app /\ call.request.get_formvalidators
                                     THEN Len(call.request.supplied) ELSE 0)
               /\ \A i \in DOMAIN schema.__validators__ :
                    /\ i <= Len(invoked')
                    /\ invoked'[i].validator = schema.__validators__[i].id]_vars

\* A run with declared and supplied validators has come to its end.
C28_Witness ==
    /\ ValidatorRan
    /\ back.exc = "none"
    /\ Len(schema.__validators__) = 2
    /\ call.request.app /\ call.request.get_formvalidators
    /\ Len(call.request.supplied) = 1
    /\ Len(invoked) = 3

\* The mapping the last dc2esmapping call emitted for the field f.
EsMappingOf(f) == (CHOOSE x \in Range(result.value) : x.attr = f.name).node

\* The "index" the emitted mapping of f is to carry: that of the
\* es.mapping_options in force (the override's when the call was given one
\* with es.mapping_options, else the field's), and without one the index
\* hint in force.
DocumentedIndex(f) ==
    LET md == IF call.metadata.given THEN call.metadata.items ELSE NoMeta
        opts == IF md.es_index # "absent" THEN md.es_index ELSE f.metadata.es_index
        hint == IF md.index # "absent" THEN md.index ELSE f.metadata.index
    IN  IF opts \notin {"absent", "noindex"} THEN opts ELSE hint

\* C29: a dc2esmapping call, with or without a metadata override, leaves
\* every field's metadata as it was; the mapping it emits for a field
\* carries the "index" of es.mapping_options when that has one, and else
\* the field's index hint.
C29_IndexHintNotLeaked ==
    (call.op = "dc2esmapping" /\ result.exc = "none")
    => \A i \in DOMAIN schema.fields :
         LET f == schema.fields[i]
         IN  f.name \in { x.attr : x \in Range(result.value) }
             => EsMappingOf(f).index = DocumentedIndex(f)
=============================================================================
